---- MODULE Spec2Model ----
(***************************************************************************)
(* Query classification and request compilation of the stock search        *)
(* assistant: normalize, the four detectors, the stock-name extractor, the *)
(* priority router parse_user_query and the payload compiler               *)
(* build_search_payload_from_spec, as written in src/app.py, and the       *)
(* variant router and compiler of src/query_parser.py and                  *)
(* src/payload_builder.py.                                                 *)
(*                                                                         *)
(* Texts are TLA+ strings; TLC evaluates Len, SubSeq and \o on strings, so *)
(* substring search, tokenising and regular-expression matching are        *)
(* computed character by character as the Python code computes them.       *)
(***************************************************************************)
EXTENDS Integers, Sequences, FiniteSets, TLC

VARIABLES
  impl,          \* which router/compiler pair serves the request
  input,         \* user_input, the raw text handed to parse_user_query
  text_lower,    \* parse_user_query local: normalize(user_input)
  metric_info,   \* parse_user_query local: detect_metric(text_lower)
  index_code,    \* parse_user_query local: detect_index_code(text_lower)
  sector,        \* parse_user_query local: detect_sector(text_lower, original)
  metric_filter, \* parse_user_query local: detect_metric_filter(text_lower)
  spec,          \* the dict parse_user_query returned
  payload,       \* the dict build_search_payload_from_spec returned
  pc,            \* "input" -> "parsed" -> "compiled"
  tables,        \* the module-level tables, as every call finds them
  calls,         \* the locals of the calls in progress side by side
  results,       \* what the calls that were made before have returned
  singletons,    \* the lazily created clients: app_sdk._search_client and
                 \* the class attributes of db_parser.CosmosDBStockQuery
  threads,       \* the threads that ask for a client, each at its statement
  cosmos_app     \* CosmosDynamicQueryApp.process_query: locals and position

vars == <<impl, input, text_lower, metric_info, index_code, sector,
          metric_filter, spec, payload, pc, tables, calls,
          results, singletons, threads, cosmos_app>>

services == <<singletons, threads, cosmos_app>>

-----------------------------------------------------------------------------
(* Python values.  TLC compares strings only with strings, so Python's     *)
(* None is written None where a str is expected and NoneObj where a dict   *)
(* or a float is expected.  No text of the model contains the characters   *)
(* of None.                                                                *)

None == "<None>"
NoneObj == [py_none |-> TRUE]

\* the client singletons before any caller asked for one: every name is None
\* (written 0; a client that was constructed is written as its number in
\* the order of construction) and no client was constructed
NoClients ==
  [search_client |-> 0, cosmos_client |-> 0, cosmos_database |-> 0,
   cosmos_container |-> 0, made_search |-> 0, made_cosmos |-> 0]

\* no thread asks for a client and no process_query is under way
ServicesAtRest ==
  /\ singletons = NoClients
  /\ threads = << >>
  /\ cosmos_app = NoneObj

-----------------------------------------------------------------------------
(* Strings *)

Char(s, i) == SubSeq(s, i, i)

\* Python: p in t
Contains(t, p) ==
  \E i \in 1..(Len(t) - Len(p) + 1) : SubSeq(t, i, i + Len(p) - 1) = p

\* p occurs in t starting at position i
StartsAt(t, p, i) ==
  /\ i + Len(p) - 1 <= Len(t)
  /\ SubSeq(t, i, i + Len(p) - 1) = p

UPPERCASE == "ABCDEFGHIJKLMNOPQRSTUVWXYZ"
LOWERCASE == "abcdefghijklmnopqrstuvwxyz"
DIGITS == "0123456789"

CharsOf(s) == {Char(s, i) : i \in 1..Len(s)}

\* str.split() and str.strip() without arguments cut at whitespace
Whitespace == {" ", "\t", "\n", "\r", "\f"}

LowerChar(c) ==
  IF \E i \in 1..Len(UPPERCASE) : Char(UPPERCASE, i) = c
  THEN Char(LOWERCASE, CHOOSE i \in 1..Len(UPPERCASE) : Char(UPPERCASE, i) = c)
  ELSE c

RECURSIVE LowerFrom(_, _)
LowerFrom(s, i) ==
  IF i > Len(s) THEN "" ELSE LowerChar(Char(s, i)) \o LowerFrom(s, i + 1)

\* str.lower()
Lower(s) == LowerFrom(s, 1)

\* str.strip()
Strip(s) ==
  LET keep == {i \in 1..Len(s) : Char(s, i) \notin Whitespace}
  IN  IF keep = {} THEN ""
      ELSE SubSeq(s, CHOOSE i \in keep : \A j \in keep : i <= j,
                     CHOOSE i \in keep : \A j \in keep : j <= i)

\* the maximal runs of characters of s that are in (inside = TRUE) or not in
\* (inside = FALSE) the set chars, left to right
RECURSIVE RunsFrom(_, _, _, _, _)
RunsFrom(s, chars, inside, i, cur) ==
  IF i > Len(s)
  THEN IF cur = "" THEN <<>> ELSE <<cur>>
  ELSE IF (Char(s, i) \in chars) = inside
       THEN RunsFrom(s, chars, inside, i + 1, cur \o Char(s, i))
       ELSE IF cur = ""
            THEN RunsFrom(s, chars, inside, i + 1, "")
            ELSE <<cur>> \o RunsFrom(s, chars, inside, i + 1, "")

\* str.split()
Split(s) == RunsFrom(s, Whitespace, FALSE, 1, "")

RECURSIVE JoinFrom(_, _, _)
JoinFrom(sep, parts, i) ==
  IF i > Len(parts) THEN ""
  ELSE IF i = Len(parts) THEN parts[i]
  ELSE parts[i] \o sep \o JoinFrom(sep, parts, i + 1)

\* sep.join(parts)
Join(sep, parts) == JoinFrom(sep, parts, 1)

\* x in parts, for a Python list
InList(x, parts) == \E i \in 1..Len(parts) : parts[i] = x

-----------------------------------------------------------------------------
(* Config: the alias tables, in the insertion order of the dict literals   *)
(* (the order a Python dict iterates in); each entry is <<phrase, value>>. *)
(* src/query_parser.py and src/app_sdk.py repeat the four tables entry for *)
(* entry.                                                                  *)

METRIC_ALIASES_at_import == <<
    <<"pe", "PE">>, <<"p/e", "PE">>, <<"p e", "PE">>, <<"pb", "PB">>,
    <<"p/b", "PB">>, <<"p b", "PB">>, <<"price to book", "PB">>,
    <<"price", "PRICE">>, <<"share price", "PRICE">>,
    <<"market price", "PRICE">>, <<"market cap", "MarketCapCr">>,
    <<"marketcap", "MarketCapCr">>,
    <<"market capitalization", "MarketCapCr">>, <<"eps", "EPS">>,
    <<"earnings per share", "EPS">>, <<"dividend", "DividendYieldPct">>,
    <<"dividend yield", "DividendYieldPct">>, <<"sector", "Sector">>
  >>

SECTOR_ALIASES_at_import == <<
    <<"energy", "Energy">>, <<"oil", "Energy">>, <<"gas", "Energy">>,
    <<"petroleum", "Energy">>, <<"oil and gas", "Energy">>,
    <<"oil & gas", "Energy">>,
    <<"information technology", "Information Technology">>,
    <<"it", "Information Technology">>, <<"tech", "Information Technology">>,
    <<"technology", "Information Technology">>,
    <<"software", "Information Technology">>,
    <<"infotech", "Information Technology">>, <<"financials", "Financials">>,
    <<"financial", "Financials">>, <<"finance", "Financials">>,
    <<"banking", "Financials">>, <<"bank", "Financials">>,
    <<"banks", "Financials">>, <<"nbfc", "Financials">>,
    <<"insurance", "Financials">>, <<"financial services", "Financials">>,
    <<"automobile", "Automobile">>, <<"auto", "Automobile">>,
    <<"automotive", "Automobile">>, <<"cars", "Automobile">>,
    <<"vehicles", "Automobile">>, <<"automobiles", "Automobile">>,
    <<"consumer staples", "Consumer Staples">>,
    <<"fmcg", "Consumer Staples">>, <<"consumer goods", "Consumer Staples">>,
    <<"staples", "Consumer Staples">>,
    <<"fast moving consumer goods", "Consumer Staples">>,
    <<"consumer discretionary", "Consumer Discretionary">>,
    <<"discretionary", "Consumer Discretionary">>,
    <<"retail", "Consumer Discretionary">>,
    <<"consumer durables", "Consumer Discretionary">>,
    <<"healthcare", "Healthcare">>, <<"health", "Healthcare">>,
    <<"pharma", "Healthcare">>, <<"pharmaceutical", "Healthcare">>,
    <<"pharmaceuticals", "Healthcare">>, <<"hospitals", "Healthcare">>,
    <<"health care", "Healthcare">>, <<"materials", "Materials">>,
    <<"material", "Materials">>, <<"metals", "Materials">>,
    <<"metal", "Materials">>, <<"mining", "Materials">>,
    <<"steel", "Materials">>, <<"cement", "Materials">>,
    <<"chemicals", "Materials">>, <<"metals and mining", "Materials">>,
    <<"industrials", "Industrials">>, <<"industrial", "Industrials">>,
    <<"manufacturing", "Industrials">>, <<"engineering", "Industrials">>,
    <<"construction", "Industrials">>, <<"infrastructure", "Industrials">>,
    <<"utilities", "Utilities">>, <<"utility", "Utilities">>,
    <<"power", "Utilities">>, <<"electricity", "Utilities">>,
    <<"electric", "Utilities">>,
    <<"communication services", "Communication Services">>,
    <<"telecom", "Communication Services">>,
    <<"communication", "Communication Services">>,
    <<"telco", "Communication Services">>,
    <<"telecommunications", "Communication Services">>,
    <<"conglomerate", "Conglomerate">>, <<"diversified", "Conglomerate">>,
    <<"conglomerates", "Conglomerate">>, <<"real estate", "Real Estate">>,
    <<"realty", "Real Estate">>, <<"property", "Real Estate">>,
    <<"real-estate", "Real Estate">>
  >>

INDEX_ALIASES_at_import == <<
    <<"nifty 50", "NIFTY50">>, <<"nifty50", "NIFTY50">>,
    <<"nifty fifty", "NIFTY50">>, <<"niftyfifty", "NIFTY50">>,
    <<"nifty-50", "NIFTY50">>, <<"nifty 100", "NIFTY100">>,
    <<"nifty100", "NIFTY100">>, <<"nifty hundred", "NIFTY100">>,
    <<"nifty-100", "NIFTY100">>, <<"nifty it", "NIFTYIT">>,
    <<"niftyit", "NIFTYIT">>, <<"nifty-it", "NIFTYIT">>,
    <<"nifty information technology", "NIFTYIT">>,
    <<"nifty tech", "NIFTYIT">>, <<"nifty bank", "NIFTYBANK">>,
    <<"niftybank", "NIFTYBANK">>, <<"nifty-bank", "NIFTYBANK">>,
    <<"nifty banking", "NIFTYBANK">>, <<"nifty fmcg", "NIFTYFMCG">>,
    <<"niftyfmcg", "NIFTYFMCG">>, <<"nifty-fmcg", "NIFTYFMCG">>,
    <<"nifty consumer staples", "NIFTYFMCG">>,
    <<"nifty energy", "NIFTYENERGY">>, <<"niftyenergy", "NIFTYENERGY">>,
    <<"nifty-energy", "NIFTYENERGY">>, <<"nifty oil gas", "NIFTYENERGY">>,
    <<"nifty auto", "NIFTYAUTO">>, <<"niftyauto", "NIFTYAUTO">>,
    <<"nifty-auto", "NIFTYAUTO">>, <<"nifty automobile", "NIFTYAUTO">>,
    <<"nifty pharma", "NIFTYPHARMA">>, <<"niftypharma", "NIFTYPHARMA">>,
    <<"nifty-pharma", "NIFTYPHARMA">>,
    <<"nifty pharmaceutical", "NIFTYPHARMA">>,
    <<"nifty healthcare", "NIFTYPHARMA">>, <<"nifty metal", "NIFTYMETAL">>,
    <<"niftymetal", "NIFTYMETAL">>, <<"nifty-metal", "NIFTYMETAL">>,
    <<"nifty metals", "NIFTYMETAL">>, <<"nifty realty", "NIFTYREALTY">>,
    <<"niftyrealty", "NIFTYREALTY">>, <<"nifty-realty", "NIFTYREALTY">>,
    <<"nifty real estate", "NIFTYREALTY">>
  >>

\* the comparator table without its entry for "above"
COMPARATOR_ALIASES_at_import_no_above == <<
    <<">", "gt">>, <<"greater than", "gt">>, <<"higher than", "gt">>,
    <<"more than", "gt">>, <<"over", "gt">>, <<"<", "lt">>,
    <<"less than", "lt">>, <<"lower than", "lt">>, <<"under", "lt">>,
    <<"below", "lt">>, <<">=", "ge">>, <<"at least", "ge">>, <<"<=", "le">>,
    <<"at most", "le">>
  >>

COMPARATOR_ALIASES_at_import == <<
    <<">", "gt">>, <<"greater than", "gt">>, <<"higher than", "gt">>,
    <<"more than", "gt">>, <<"above", "gt">>, <<"over", "gt">>, <<"<", "lt">>,
    <<"less than", "lt">>, <<"lower than", "lt">>, <<"under", "lt">>,
    <<"below", "lt">>, <<">=", "ge">>, <<"at least", "ge">>, <<"<=", "le">>,
    <<"at most", "le">>
  >>

\* the stop words with the words of an index name among them
STOPWORDS_FOR_STOCK_at_import_with_nifty ==
  {"what", "is", "the", "of", "for", "give", "me", "show",
   "tell", "stock", "stocks", "share", "shares",
   "price", "pe", "p/e", "eps",
   "dividend", "yield", "market", "cap", "in", "on", "all", "nifty", "50"}

STOPWORDS_FOR_STOCK_at_import ==
  {"what", "is", "the", "of", "for", "give", "me", "show",
   "tell", "stock", "stocks", "share", "shares",
   "price", "pe", "p/e", "eps",
   "dividend", "yield", "market", "cap", "in", "on", "all"}

\* query_parser.py adds three words to the set
qp_STOPWORDS_FOR_STOCK_at_import ==
  STOPWORDS_FOR_STOCK_at_import \cup {"sector", "sectors", "industry"}

\* the objects the module-level names are bound to once the module is imported
TablesAtImport ==
  [METRIC_ALIASES |-> METRIC_ALIASES_at_import,
   SECTOR_ALIASES |-> SECTOR_ALIASES_at_import,
   INDEX_ALIASES |-> INDEX_ALIASES_at_import,
   COMPARATOR_ALIASES |-> COMPARATOR_ALIASES_at_import,
   STOPWORDS_FOR_STOCK |-> STOPWORDS_FOR_STOCK_at_import,
   qp_STOPWORDS_FOR_STOCK |-> qp_STOPWORDS_FOR_STOCK_at_import]

\* a function body that names a table reads the object the module-level name
\* is bound to at the time of the call
METRIC_ALIASES == tables.METRIC_ALIASES
SECTOR_ALIASES == tables.SECTOR_ALIASES
INDEX_ALIASES == tables.INDEX_ALIASES
COMPARATOR_ALIASES == tables.COMPARATOR_ALIASES
STOPWORDS_FOR_STOCK == tables.STOPWORDS_FOR_STOCK
qp_STOPWORDS_FOR_STOCK == tables.qp_STOPWORDS_FOR_STOCK

\* what a call leaves in the module-level tables: the detectors, the
\* extractor, the routers and the compilers read the tables with `in`,
\* .items(), .get() and [] only; none assigns to a module-level name or calls
\* a mutating method on a table.  fn is the function that ran, result the
\* value it returned.
\* a lookup that takes the alias out of the table: dict.pop for dict.get
TablesAfter_pop(g, fn, result) ==
  IF fn = "detect_metric_filter" /\ result # NoneObj
  THEN [g EXCEPT !.METRIC_ALIASES =
          SelectSeq(@, LAMBDA e : e[1] # result.raw_metric_phrase)]
  ELSE g

TablesAfter(g, fn, result) == g

\* what build_search_payload_from_spec leaves in the dict it was handed: it
\* reads spec with [] and .get() only
\* a compiler that takes the range filter out of the dict: dict.pop for
\* dict.get
SpecAfterBuild_pop(sp) ==
  IF "metric_filter" \in DOMAIN sp
  THEN [k \in DOMAIN sp \ {"metric_filter"} |-> sp[k]]
  ELSE sp

SpecAfterBuild(sp) == sp

\* dict.get(key): the value of key, or None
Get(table, key) ==
  IF \E i \in 1..Len(table) : table[i][1] = key
  THEN table[CHOOSE i \in 1..Len(table) : table[i][1] = key][2]
  ELSE None

\* normalize keeping the letter case
normalize_keep_case(text) == Join(" ", Split(Strip(text)))

\* def normalize(text): " ".join(text.lower().strip().split())
normalize(text) == Join(" ", Split(Strip(Lower(text))))

-----------------------------------------------------------------------------
(* Detection helpers *)

\* best = None
\* for phrase, value in table.items():
\*     if phrase in text_lower:
\*         if best is None or len(phrase) > len(best["phrase"]): best = ...
\* The result is the position in the table of best, 0 for None.
RECURSIVE BestFrom(_, _, _, _)
BestFrom(table, text, i, best) ==
  IF i > Len(table) THEN best
  ELSE IF /\ Contains(text, table[i][1])
          /\ (best = 0 \/ Len(table[i][1]) > Len(table[best][1]))
       THEN BestFrom(table, text, i + 1, i)
       ELSE BestFrom(table, text, i + 1, best)

\* the first phrase of the table that occurs, whatever its length
FirstPhrase(table, text) ==
  IF \E i \in 1..Len(table) : Contains(text, table[i][1])
  THEN CHOOSE i \in 1..Len(table) :
         /\ Contains(text, table[i][1])
         /\ \A j \in 1..(i - 1) : ~Contains(text, table[j][1])
  ELSE 0

LongestPhrase(table, text) == BestFrom(table, text, 1, 0)

detect_metric(text) ==
  LET best == LongestPhrase(METRIC_ALIASES, text)
  IN  IF best = 0 THEN NoneObj
      ELSE [phrase |-> METRIC_ALIASES[best][1], column |-> METRIC_ALIASES[best][2]]

detect_index_code(text) ==
  LET best == LongestPhrase(INDEX_ALIASES, text)
  IN  IF best = 0 THEN None ELSE INDEX_ALIASES[best][2]

sector_modifiers ==
  {"all", "top", "best", "good", "leading", "major", "large", "small",
   "show", "list", "give", "find", "get", "see", "view",
   "sector", "industry", "companies", "stocks", "shares",
   "nifty", "index"}

sector_listing_keywords ==
  <<"stocks", "companies", "list", "show", "sector", "all", "in", "please", "me">>

\* any(kw in text_lower for kw in keywords): substring containment
AnyKeywordIn(keywords, text) ==
  \E k \in 1..Len(keywords) : Contains(text, keywords[k])

\* tokens.index(word): the first position of word, 0 for ValueError
IndexOf(tokens, word) ==
  IF InList(word, tokens)
  THEN CHOOSE i \in 1..Len(tokens) :
         tokens[i] = word /\ \A j \in 1..(i - 1) : tokens[j] # word
  ELSE 0

\* The company-name guard of detect_sector: in a query of at most 3 tokens
\* without listing context, some alias that occurs in the text has its last
\* word as a token (first occurrence not in front) whose preceding token is no
\* sector modifier and longer than 2 characters.  The loop returns None at
\* the first such alias, so the order of the table does not matter.
LooksLikeCompanyName(text) ==
  LET tokens == Split(text)
  IN  /\ Len(tokens) <= 3
      /\ ~AnyKeywordIn(sector_listing_keywords, text)
      /\ \E p \in 1..Len(SECTOR_ALIASES) :
           /\ Contains(text, SECTOR_ALIASES[p][1])
           /\ LET phrase_words == Split(SECTOR_ALIASES[p][1])
                  sector_keyword == phrase_words[Len(phrase_words)]
                  keyword_index == IndexOf(tokens, sector_keyword)
              IN  /\ keyword_index > 1
                  /\ tokens[keyword_index - 1] \notin sector_modifiers
                  /\ Len(tokens[keyword_index - 1]) > 2

detect_sector(text, original_text) ==
  IF LooksLikeCompanyName(text) THEN None
  ELSE LET best == LongestPhrase(SECTOR_ALIASES, text)
       IN  IF best = 0 THEN None ELSE SECTOR_ALIASES[best][2]

qp_sector_modifiers ==
  {"all", "top", "best", "good", "leading", "major", "large", "small",
   "sector", "stocks", "companies", "list", "show", "get", "find"}

\* query_parser.detect_sector: the longest match first, then a two-word
\* query without a modifier token is taken for a company name
qp_detect_sector(text, original_text) ==
  LET best == LongestPhrase(SECTOR_ALIASES, text)
      words_in_query == Split(text)
  IN  IF best = 0 THEN None
      ELSE IF \E m \in qp_sector_modifiers : InList(m, words_in_query)
           THEN SECTOR_ALIASES[best][2]
      ELSE IF Len(words_in_query) = 2 THEN None
      ELSE SECTOR_ALIASES[best][2]

-----------------------------------------------------------------------------
(* float(value_str).  A float is kept as the exact decimal it was read     *)
(* from: [num, scale] stands for num / 10^scale, without trailing zeros,   *)
(* so "50", "50.0" and "50." are the same value.  The numerals of the      *)
(* model are short enough for a double to hold them exactly as printed.    *)

DigitValue(c) == (CHOOSE i \in 1..Len(DIGITS) : Char(DIGITS, i) = c) - 1

RECURSIVE NatFrom(_, _, _)
NatFrom(s, i, acc) ==
  IF i > Len(s) THEN acc ELSE NatFrom(s, i + 1, 10 * acc + DigitValue(Char(s, i)))

RECURSIVE Reduce(_, _)
Reduce(num, scale) ==
  IF scale > 0 /\ num % 10 = 0 THEN Reduce(num \div 10, scale - 1)
  ELSE [num |-> num, scale |-> scale]

\* float(s) for s matching [\d\.]+ ; NoneObj stands for ValueError
ParseFloat(s) ==
  LET dots == {i \in 1..Len(s) : Char(s, i) = "."}
  IN  IF Cardinality(dots) > 1 \/ Len(s) - Cardinality(dots) < 1 THEN NoneObj
      ELSE IF dots = {} THEN Reduce(NatFrom(s, 1, 0), 0)
      ELSE LET d == CHOOSE i \in dots : TRUE
               digits == SubSeq(s, 1, d - 1) \o SubSeq(s, d + 1, Len(s))
           IN  Reduce(NatFrom(digits, 1, 0), Len(s) - d)

-----------------------------------------------------------------------------
(* The range-filter regular expression                                     *)
(*   (market cap|...|market price).*?(>=|<=|...|at most)\s*([\d\.]+)       *)
(* searched with re.search: the leftmost start; at a start the metric      *)
(* alternatives in the order written; the lazy .*? takes the shortest gap  *)
(* first; at a gap the comparator alternatives in the order written; \s*   *)
(* and [\d\.]+ are greedy.                                                 *)

METRIC_PATTERN ==
  <<"market cap", "marketcap", "pb", "p/b", "pe", "p/e", "eps",
    "dividend yield", "dividend", "price", "share price", "market price">>

COMP_PATTERN ==
  <<">=", "<=", ">", "<", "greater than", "more than", "above", "over",
    "less than", "under", "below", "at least", "at most">>

NumChars == CharsOf(DIGITS) \cup {"."}

\* \s* : the first position from j on that holds no whitespace
SkipSpace(t, j) ==
  CHOOSE k \in j..(Len(t) + 1) :
    /\ k = Len(t) + 1 \/ Char(t, k) \notin Whitespace
    /\ \A l \in j..(k - 1) : Char(t, l) \in Whitespace

\* [\d\.]+ : the last position of the run of digits and dots that starts at j
NumEnd(t, j) ==
  CHOOSE k \in j..Len(t) :
    /\ \A l \in j..k : Char(t, l) \in NumChars
    /\ k = Len(t) \/ Char(t, k + 1) \notin NumChars

\* the first comparator alternative that matches at j and is followed by
\* optional whitespace and a number; 0 when there is none
CompAt(t, j) ==
  LET ok == {c \in 1..Len(COMP_PATTERN) :
               /\ StartsAt(t, COMP_PATTERN[c], j)
               /\ LET s == SkipSpace(t, j + Len(COMP_PATTERN[c]))
                  IN  s <= Len(t) /\ Char(t, s) \in NumChars}
  IN  IF ok = {} THEN 0 ELSE CHOOSE c \in ok : \A d \in ok : c <= d

\* the least element of a non-empty set of positions or alternatives
Least(S) == CHOOSE x \in S : \A y \in S : x <= y

\* the positions where a comparator alternative, \s* and a number match
CompPositions(t) == {j \in 1..Len(t) : CompAt(t, j) # 0}

\* the ends of the gaps .*? can take after alternative a matched at i
\* ("." matches no newline)
Rest(t, compPos, i, a) ==
  {j \in compPos :
     /\ j >= i + Len(METRIC_PATTERN[a])
     /\ \A l \in (i + Len(METRIC_PATTERN[a]))..(j - 1) : Char(t, l) # "\n"}

\* the <<start, metric alternative>> pairs from which the whole pattern matches
Candidates(t, compPos) ==
  {ia \in (1..Len(t)) \X (1..Len(METRIC_PATTERN)) :
     StartsAt(t, METRIC_PATTERN[ia[2]], ia[1]) /\ Rest(t, compPos, ia[1], ia[2]) # {}}

\* the three groups: metric alternative a, comparator alternative c, and the
\* number that starts at s
Groups(t, a, c, s) ==
  [metric_phrase |-> METRIC_PATTERN[a],
   comp_phrase |-> COMP_PATTERN[c],
   value_str |-> SubSeq(t, s, NumEnd(t, s))]

\* the comparator at the end j of the gap, then \s*
MatchGap(t, a, j, c) == Groups(t, a, c, SkipSpace(t, j + Len(COMP_PATTERN[c])))

\* the shortest gap after alternative a at start i
MatchAlt(t, a, j) == MatchGap(t, a, j, CompAt(t, j))

\* the first alternative that matches at the leftmost start i
MatchStart(t, compPos, i, a) == MatchAlt(t, a, Least(Rest(t, compPos, i, a)))

\* the leftmost start
MatchLeftmost(t, compPos, cand, i) ==
  MatchStart(t, compPos, i, Least({ia[2] : ia \in {x \in cand : x[1] = i}}))

SearchAmong(t, compPos, cand) ==
  IF cand = {} THEN NoneObj
  ELSE MatchLeftmost(t, compPos, cand, Least({ia[1] : ia \in cand}))

SearchFrom(t, compPos) ==
  IF compPos = {} THEN NoneObj ELSE SearchAmong(t, compPos, Candidates(t, compPos))

\* regex.search(text_lower): the three groups, or NoneObj
RegexSearch(t) == SearchFrom(t, CompPositions(t))

\* str.replace(old, new): the occurrences of old, left to right, not overlapping
RECURSIVE ReplaceFrom(_, _, _, _)
ReplaceFrom(s, old, new, i) ==
  IF i > Len(s) THEN ""
  ELSE IF StartsAt(s, old, i) THEN new \o ReplaceFrom(s, old, new, i + Len(old))
  ELSE Char(s, i) \o ReplaceFrom(s, old, new, i + 1)

Replace(s, old, new) == ReplaceFrom(s, old, new, 1)

symbol_op_map == << <<">", "gt">>, <<"<", "lt">>, <<">=", "ge">>, <<"<=", "le">> >>

\* the lookups and the conversion that follow a match m
FilterOfMatch(m) ==
  IF m = NoneObj THEN NoneObj
  ELSE
    LET metric_col == Get(METRIC_ALIASES, Replace(Strip(m.metric_phrase), "  ", " "))
        looked == Get(COMPARATOR_ALIASES, Strip(m.comp_phrase))
        op == IF looked # None /\ looked # "" THEN looked
              ELSE Get(symbol_op_map, Strip(m.comp_phrase))
        value == ParseFloat(m.value_str)
    IN  IF metric_col = None \/ metric_col = "" THEN NoneObj
        ELSE IF op = None THEN NoneObj
        ELSE IF value = NoneObj THEN NoneObj
        ELSE [metric |-> metric_col, op |-> op, value |-> value,
              raw_metric_phrase |-> m.metric_phrase,
              raw_comp_phrase |-> m.comp_phrase]

detect_metric_filter(text) == FilterOfMatch(RegexSearch(text))

\* query_parser.detect_metric_filter looks the two groups up as captured
qp_FilterOfMatch(m) ==
  IF m = NoneObj THEN NoneObj
  ELSE
    LET metric_col == Get(METRIC_ALIASES, m.metric_phrase)
        op == Get(COMPARATOR_ALIASES, m.comp_phrase)
        value == ParseFloat(m.value_str)
    IN  IF metric_col = None \/ metric_col = "" THEN NoneObj
        ELSE IF op = None \/ op = "" THEN NoneObj
        ELSE IF value = NoneObj THEN NoneObj
        ELSE [metric |-> metric_col, op |-> op, value |-> value,
              raw_metric_phrase |-> m.metric_phrase,
              raw_comp_phrase |-> m.comp_phrase]

qp_detect_metric_filter(text) == qp_FilterOfMatch(RegexSearch(text))

-----------------------------------------------------------------------------
(* Stock-name extraction *)

\* re.findall(r"[a-zA-Z0-9&.\-]+", text_lower)
TokenChars ==
  CharsOf(LOWERCASE) \cup CharsOf(UPPERCASE) \cup CharsOf(DIGITS) \cup {"&", ".", "-"}

FindTokens(text) == RunsFrom(text, TokenChars, TRUE, 1, "")

RECURSIVE FilterFrom(_, _, _, _)
FilterFrom(tokens, stopwords, metric_tokens, i) ==
  IF i > Len(tokens) THEN <<>>
  ELSE IF tokens[i] \in stopwords \/ InList(tokens[i], metric_tokens)
       THEN FilterFrom(tokens, stopwords, metric_tokens, i + 1)
       ELSE <<tokens[i]>> \o FilterFrom(tokens, stopwords, metric_tokens, i + 1)

ExtractWith(stopwords, text, info) ==
  LET tokens == FindTokens(text)
      metric_tokens == IF info # NoneObj THEN Split(info.phrase) ELSE <<>>
      filtered == FilterFrom(tokens, stopwords, metric_tokens, 1)
  IN  IF filtered = <<>> THEN None ELSE Join(" ", filtered)

extract_stock_query(original, text, info) ==
  ExtractWith(STOPWORDS_FOR_STOCK, text, info)

qp_extract_stock_query(original, text, info) ==
  ExtractWith(qp_STOPWORDS_FOR_STOCK, text, info)

-----------------------------------------------------------------------------
(* Main query parsing: user text -> spec (src/app.py; src/app_sdk.py       *)
(* repeats the function statement for statement)                           *)

\* Python truth of an Optional[str]
Truthy(s) == s # None /\ s # ""

route_listing_keywords == <<"stocks", "companies", "list", "show", "all", "in">>

has_listing_context(text) ==
  AnyKeywordIn(route_listing_keywords, text) \/ Contains(text, "sector")

\* is_likely_sector_query of rules 2 and 4
is_likely_sector_query(original, text, info) ==
  \/ has_listing_context(text)
  \/ ~Truthy(extract_stock_query(original, text, info))
  \/ Len(Split(text)) <= 3

FilterOnly(mf) == [metric |-> mf.metric, op |-> mf.op, value |-> mf.value]

RawWithFilter(original, mf) ==
  [input |-> original, metric_phrase |-> mf.raw_metric_phrase,
   comp_phrase |-> mf.raw_comp_phrase]

\* the dict each return statement of parse_user_query builds
IndexFilterSpec(original, idx, mf) ==
  [mode |-> "list_by_metric_filter", index_code |-> idx,
   metric_filter |-> FilterOnly(mf), raw |-> RawWithFilter(original, mf)]

\* the sector + filter dict under the mode name src/query_parser.py gives it
SectorFilterSpec_other_name(original, sec, mf) ==
  [mode |-> "list_by_sector_and_metric_filter", sector |-> sec,
   metric_filter |-> FilterOnly(mf), raw |-> RawWithFilter(original, mf)]

SectorFilterSpec(original, sec, mf) ==
  [mode |-> "list_by_sector_with_filter", sector |-> sec,
   metric_filter |-> FilterOnly(mf), raw |-> RawWithFilter(original, mf)]

IndexSpec(original, idx) ==
  [mode |-> "list_by_index", index_code |-> idx,
   metric_filter |-> NoneObj, raw |-> [input |-> original]]

SectorSpec(original, sec) ==
  [mode |-> "list_by_sector", sector |-> sec, raw |-> [input |-> original]]

\* MetricSpec falling through to the overview when no stock name is left
MetricSpec_overview(original, text, info, idx) ==
  LET stock_query == extract_stock_query(original, text, info)
  IN  IF Truthy(stock_query)
      THEN [mode |-> "single_stock_metric", stock_query |-> stock_query,
            metric |-> info.column, metric_phrase |-> info.phrase,
            raw |-> [input |-> original]]
      ELSE [mode |-> "single_stock_overview", stock_query |-> original,
            raw |-> [input |-> original]]

\* 6) Stock + metric => single_stock_metric; a metric but no clear stock is
\* treated as a metric filter across the universe
MetricSpec(original, text, info, idx) ==
  LET stock_query == extract_stock_query(original, text, info)
  IN  IF Truthy(stock_query)
      THEN [mode |-> "single_stock_metric", stock_query |-> stock_query,
            metric |-> info.column, metric_phrase |-> info.phrase,
            raw |-> [input |-> original]]
      ELSE [mode |-> "list_by_metric_filter", index_code |-> idx,
            metric_filter |-> [metric |-> info.column, op |-> None, value |-> NoneObj],
            raw |-> [input |-> original]]

\* OverviewSpec falling back to the normalized text instead of the raw input
OverviewSpec_normalized(original, text) ==
  LET stock_query == extract_stock_query(original, text, NoneObj)
  IN  [mode |-> "single_stock_overview",
       stock_query |-> IF Truthy(stock_query) THEN stock_query ELSE text,
       raw |-> [input |-> original]]

\* 7) No metric, no index => assume single stock overview
OverviewSpec(original, text) ==
  LET stock_query == extract_stock_query(original, text, NoneObj)
  IN  [mode |-> "single_stock_overview",
       stock_query |-> IF Truthy(stock_query) THEN stock_query ELSE original,
       raw |-> [input |-> original]]

\* Route with the single-stock rule 6) tried before the range-filter rule 5)
Route_metric_before_filter(original, text, info, idx, sec, mf) ==
  IF idx # None /\ mf # NoneObj
  THEN IndexFilterSpec(original, idx, mf)
  ELSE IF sec # None /\ mf # NoneObj /\ is_likely_sector_query(original, text, info)
  THEN SectorFilterSpec(original, sec, mf)
  ELSE IF Truthy(idx) /\ info = NoneObj
  THEN IndexSpec(original, idx)
  ELSE IF sec # None /\ is_likely_sector_query(original, text, info)
  THEN SectorSpec(original, sec)
  ELSE IF info # NoneObj /\ Truthy(extract_stock_query(original, text, info))
  THEN MetricSpec(original, text, info, idx)
  ELSE IF mf # NoneObj
  THEN IndexFilterSpec(original, idx, mf)
  ELSE IF info # NoneObj
  THEN MetricSpec(original, text, info, idx)
  ELSE OverviewSpec(original, text)

\* Route with the sector + filter rule 2) tried before the index + filter rule 1)
Route_sector_filter_first(original, text, info, idx, sec, mf) ==
  IF sec # None /\ mf # NoneObj /\ is_likely_sector_query(original, text, info)
  THEN SectorFilterSpec(original, sec, mf)
  ELSE IF idx # None /\ mf # NoneObj
  THEN IndexFilterSpec(original, idx, mf)
  ELSE IF Truthy(idx) /\ info = NoneObj
  THEN IndexSpec(original, idx)
  ELSE IF sec # None /\ is_likely_sector_query(original, text, info)
  THEN SectorSpec(original, sec)
  ELSE IF mf # NoneObj
  THEN IndexFilterSpec(original, idx, mf)
  ELSE IF info # NoneObj
  THEN MetricSpec(original, text, info, idx)
  ELSE OverviewSpec(original, text)

\* Route with the range-filter rule 5) tried before the sector + filter rule 2)
Route_filter_before_sector(original, text, info, idx, sec, mf) ==
  IF mf # NoneObj
  THEN IndexFilterSpec(original, idx, mf)
  ELSE IF Truthy(idx) /\ info = NoneObj
  THEN IndexSpec(original, idx)
  ELSE IF sec # None /\ is_likely_sector_query(original, text, info)
  THEN SectorSpec(original, sec)
  ELSE IF info # NoneObj
  THEN MetricSpec(original, text, info, idx)
  ELSE OverviewSpec(original, text)

\* Route with the sector rule 4) tried before the index rule 3)
Route_sector_before_index(original, text, info, idx, sec, mf) ==
  IF idx # None /\ mf # NoneObj
  THEN IndexFilterSpec(original, idx, mf)
  ELSE IF sec # None /\ mf # NoneObj /\ is_likely_sector_query(original, text, info)
  THEN SectorFilterSpec(original, sec, mf)
  ELSE IF sec # None /\ is_likely_sector_query(original, text, info)
  THEN SectorSpec(original, sec)
  ELSE IF Truthy(idx) /\ info = NoneObj
  THEN IndexSpec(original, idx)
  ELSE IF mf # NoneObj
  THEN IndexFilterSpec(original, idx, mf)
  ELSE IF info # NoneObj
  THEN MetricSpec(original, text, info, idx)
  ELSE OverviewSpec(original, text)

\* the if-chain of parse_user_query over the four detector results
Route(original, text, info, idx, sec, mf) ==
  IF idx # None /\ mf # NoneObj
  THEN IndexFilterSpec(original, idx, mf)
  ELSE IF sec # None /\ mf # NoneObj /\ is_likely_sector_query(original, text, info)
  THEN SectorFilterSpec(original, sec, mf)
  ELSE IF Truthy(idx) /\ info = NoneObj
  THEN IndexSpec(original, idx)
  ELSE IF sec # None /\ is_likely_sector_query(original, text, info)
  THEN SectorSpec(original, sec)
  ELSE IF mf # NoneObj
  THEN IndexFilterSpec(original, idx, mf)
  ELSE IF info # NoneObj
  THEN MetricSpec(original, text, info, idx)
  ELSE OverviewSpec(original, text)

parse_user_query(user_input) ==
  LET text == normalize(user_input)
  IN  Route(user_input, text, detect_metric(text), detect_index_code(text),
            detect_sector(text, user_input), detect_metric_filter(text))

-----------------------------------------------------------------------------
(* The variant router of src/query_parser.py *)

qp_sector_words == <<"sector", "sectors", "industry">>

qp_Route(original, text, info, idx, sec, mf) ==
  IF idx # None /\ mf # NoneObj
  THEN \* 1) Index + Metric filter
       [mode |-> "list_by_metric_filter", index_code |-> idx,
        metric_filter |-> FilterOnly(mf), raw |-> RawWithFilter(original, mf)]
  ELSE IF idx # None /\ sec # None
  THEN \* 2) Index + Sector
       [mode |-> "list_by_index_and_sector", index_code |-> idx, sector |-> sec,
        raw |-> [input |-> original]]
  ELSE IF sec # None /\ mf # NoneObj
  THEN \* 3) Sector + Metric filter
       [mode |-> "list_by_sector_and_metric_filter", sector |-> sec,
        metric_filter |-> FilterOnly(mf), raw |-> RawWithFilter(original, mf)]
  ELSE IF /\ info # NoneObj
          /\ Truthy(qp_extract_stock_query(original, text, info))
          /\ ~\E k \in 1..Len(qp_sector_words) : InList(qp_sector_words[k], Split(text))
  THEN \* 4) Single stock metric
       [mode |-> "single_stock_metric",
        stock_query |-> qp_extract_stock_query(original, text, info),
        metric |-> info.column,
        raw |-> [input |-> original, metric_phrase |-> info.phrase]]
  ELSE IF idx # None
  THEN \* 5) Index only
       [mode |-> "list_by_index", index_code |-> idx,
        metric_filter |-> NoneObj, raw |-> [input |-> original]]
  ELSE IF sec # None
  THEN \* 6) Sector only
       [mode |-> "list_by_sector", sector |-> sec, raw |-> [input |-> original]]
  ELSE IF mf # NoneObj
  THEN \* 7) Metric filter without index/sector
       [mode |-> "list_by_metric_filter",
        metric_filter |-> FilterOnly(mf), raw |-> RawWithFilter(original, mf)]
  ELSE IF Truthy(qp_extract_stock_query(original, text, NoneObj))
  THEN \* 8) Fallback: single stock overview
       [mode |-> "single_stock_overview",
        stock_query |-> qp_extract_stock_query(original, text, NoneObj),
        raw |-> [input |-> original]]
  ELSE \* 9) No meaningful parse
       [mode |-> "unknown", raw |-> [input |-> original],
        error |-> "Could not parse query. Try patterns like 'nifty 50', 'pe of reliance', 'banking stocks'."]

qp_parse_user_query(user_input) ==
  LET text == normalize(user_input)
  IN  qp_Route(user_input, text, detect_metric(text), detect_index_code(text),
               qp_detect_sector(text, user_input), qp_detect_metric_filter(text))

-----------------------------------------------------------------------------
(* Azure AI Search: spec -> request body *)

Pow10(n) == IF n = 0 THEN 1 ELSE IF n = 1 THEN 10 ELSE IF n = 2 THEN 100
            ELSE IF n = 3 THEN 1000 ELSE IF n = 4 THEN 10000 ELSE 100000

RECURSIVE FormatNat(_)
FormatNat(n) ==
  IF n < 10 THEN Char(DIGITS, n + 1)
  ELSE FormatNat(n \div 10) \o Char(DIGITS, (n % 10) + 1)

RECURSIVE ZeroPad(_, _)
ZeroPad(s, width) == IF Len(s) >= width THEN s ELSE ZeroPad("0" \o s, width)

\* f"{value}" of a float in the positional range of repr: 50.0 -> "50.0"
FormatFloat(v) ==
  IF v.scale = 0 THEN FormatNat(v.num) \o ".0"
  ELSE FormatNat(v.num \div Pow10(v.scale)) \o "."
       \o ZeroPad(FormatNat(v.num % Pow10(v.scale)), v.scale)

\* dict.get(key) where a str, or a dict or float, is expected
GetStr(d, key) == IF key \in DOMAIN d THEN d[key] ELSE None
GetObj(d, key) == IF key \in DOMAIN d THEN d[key] ELSE NoneObj

\* d[key] of a missing key
KeyError(key) == [raised |-> "KeyError", key |-> key]

canonical_ops == {"lt", "gt", "le", "ge"}

\* build_metric_filter_odata without the test of the operator
build_metric_filter_odata_any_op(mf) ==
  IF mf = NoneObj \/ DOMAIN mf = {} THEN None
  ELSE LET metric == GetStr(mf, "metric")
           op == GetStr(mf, "op")
           value == GetObj(mf, "value")
       IN  IF ~Truthy(metric) \/ ~Truthy(op) \/ value = NoneObj THEN None
           ELSE metric \o " " \o op \o " " \o FormatFloat(value)

\* {"metric": "PE", "op": "lt", "value": 20.0} -> "PE lt 20.0", or None
build_metric_filter_odata(mf) ==
  IF mf = NoneObj \/ DOMAIN mf = {} THEN None
  ELSE LET metric == GetStr(mf, "metric")
           op == GetStr(mf, "op")
           value == GetObj(mf, "value")
       IN  IF ~Truthy(metric) \/ ~Truthy(op) \/ value = NoneObj THEN None
           ELSE IF op \notin canonical_ops THEN None
           ELSE metric \o " " \o op \o " " \o FormatFloat(value)

overview_select ==
  "Symbol,SymbolRaw,Name,Sector,MarketCapCr,PE,PB,EPS,DividendYieldPct,AllIndices"

IndexClause(idx) == "AllIndices/any(i: i eq '" \o idx \o "')"
SectorClause(sec) == "Sector eq '" \o sec \o "'"

\* a list payload that does not ask for the total count
ListPayload_no_count(select, filter_clauses) ==
  IF filter_clauses = <<>>
  THEN [search |-> "*", top |-> 50, select |-> select]
  ELSE [search |-> "*", top |-> 50, select |-> select,
        filter |-> Join(" and ", filter_clauses)]

\* a list payload: payload["filter"] is set only for a non-empty clause list
ListPayload(select, filter_clauses) ==
  IF filter_clauses = <<>>
  THEN [search |-> "*", top |-> 50, select |-> select, count |-> TRUE]
  ELSE [search |-> "*", top |-> 50, select |-> select, count |-> TRUE,
        filter |-> Join(" and ", filter_clauses)]

\* SingleMetricPayload appending the metric without looking at the list
SingleMetricPayload_always_append(sp) ==
  IF "metric" \notin DOMAIN sp THEN KeyError("metric")
  ELSE IF "stock_query" \notin DOMAIN sp THEN KeyError("stock_query")
  ELSE [search |-> sp.stock_query, searchFields |-> "SymbolRaw,Name,Symbol",
        top |-> 1,
        select |-> Join(",", <<"SymbolRaw", "Name", "Symbol", sp.metric>>)]

\* essential fields + the metric, unless already listed
SingleMetricPayload(sp) ==
  IF "metric" \notin DOMAIN sp THEN KeyError("metric")
  ELSE IF "stock_query" \notin DOMAIN sp THEN KeyError("stock_query")
  ELSE LET essential_fields == <<"SymbolRaw", "Name", "Symbol">>
           fields == IF InList(sp.metric, essential_fields) THEN essential_fields
                     ELSE Append(essential_fields, sp.metric)
       IN  [search |-> sp.stock_query, searchFields |-> "SymbolRaw,Name,Symbol",
            top |-> 1, select |-> Join(",", fields)]

\* OverviewPayload selecting the identity fields only
OverviewPayload_minimal(sp) ==
  IF "stock_query" \notin DOMAIN sp THEN KeyError("stock_query")
  ELSE [search |-> sp.stock_query, searchFields |-> "SymbolRaw,Name,Symbol",
        top |-> 1, select |-> "SymbolRaw,Name,Symbol"]

OverviewPayload(sp) ==
  IF "stock_query" \notin DOMAIN sp THEN KeyError("stock_query")
  ELSE [search |-> sp.stock_query, searchFields |-> "SymbolRaw,Name,Symbol",
        top |-> 1, select |-> overview_select]

\* FilterSelect without the filtered metric
FilterSelect_identity(mf) == <<"SymbolRaw", "Name", "Symbol", "Sector">>

\* ["SymbolRaw", "Name", "Symbol", "Sector"] + the filtered metric
FilterSelect(mf) ==
  LET select_fields == <<"SymbolRaw", "Name", "Symbol", "Sector">>
  IN  IF mf # NoneObj /\ DOMAIN mf # {} /\ Truthy(GetStr(mf, "metric"))
         /\ ~InList(mf.metric, select_fields)
      THEN Append(select_fields, mf.metric)
      ELSE select_fields

SectorFilterPayload(sp) ==
  LET sec == GetStr(sp, "sector")
      mf == GetObj(sp, "metric_filter")
      metric_odata == build_metric_filter_odata(mf)
      filter_clauses ==
        (IF Truthy(sec) THEN <<SectorClause(sec)>> ELSE <<>>)
        \o (IF Truthy(metric_odata) THEN <<metric_odata>> ELSE <<>>)
  IN  ListPayload(Join(",", FilterSelect(mf)), filter_clauses)

\* MetricFilterPayload appending the comparison before the index clause
MetricFilterPayload_metric_first(sp) ==
  LET idx == GetStr(sp, "index_code")
      mf == GetObj(sp, "metric_filter")
      metric_odata == build_metric_filter_odata(mf)
      filter_clauses ==
        (IF Truthy(metric_odata) THEN <<metric_odata>> ELSE <<>>)
        \o (IF Truthy(idx) THEN <<IndexClause(idx)>> ELSE <<>>)
      select_fields ==
        FilterSelect(mf) \o (IF Truthy(idx) THEN <<"AllIndices">> ELSE <<>>)
  IN  ListPayload(Join(",", select_fields), filter_clauses)

MetricFilterPayload(sp) ==
  LET idx == GetStr(sp, "index_code")
      mf == GetObj(sp, "metric_filter")
      metric_odata == build_metric_filter_odata(mf)
      filter_clauses ==
        (IF Truthy(idx) THEN <<IndexClause(idx)>> ELSE <<>>)
        \o (IF Truthy(metric_odata) THEN <<metric_odata>> ELSE <<>>)
      select_fields ==
        FilterSelect(mf) \o (IF Truthy(idx) THEN <<"AllIndices">> ELSE <<>>)
  IN  ListPayload(Join(",", select_fields), filter_clauses)

\* IndexPayload comparing the collection with the code instead of asking
\* for membership
IndexPayload_equality(sp) ==
  LET idx == GetStr(sp, "index_code")
  IN  ListPayload(overview_select,
                  IF Truthy(idx) THEN <<"AllIndices eq '" \o idx \o "'">> ELSE <<>>)

IndexPayload(sp) ==
  LET idx == GetStr(sp, "index_code")
  IN  ListPayload(overview_select,
                  IF Truthy(idx) THEN <<IndexClause(idx)>> ELSE <<>>)

SectorPayload(sp) ==
  LET sec == GetStr(sp, "sector")
  IN  ListPayload(overview_select,
                  IF Truthy(sec) THEN <<SectorClause(sec)>> ELSE <<>>)

\* the fallback indexing sp["stock_query"] instead of sp.get("stock_query")
FallbackPayload_indexing(sp) ==
  IF "stock_query" \notin DOMAIN sp THEN KeyError("stock_query")
  ELSE [search |-> sp.stock_query, searchFields |-> "SymbolRaw,Name,Symbol",
        top |-> 1, select |-> overview_select]

\* Fallback: sp.get("stock_query") or spec["raw"]["input"]
FallbackPayload(sp) ==
  IF Truthy(GetStr(sp, "stock_query"))
  THEN [search |-> sp.stock_query, searchFields |-> "SymbolRaw,Name,Symbol",
        top |-> 1, select |-> overview_select]
  ELSE IF "raw" \notin DOMAIN sp THEN KeyError("raw")
  ELSE IF "input" \notin DOMAIN sp.raw THEN KeyError("input")
  ELSE [search |-> sp.raw.input, searchFields |-> "SymbolRaw,Name,Symbol",
        top |-> 1, select |-> overview_select]

\* src/app.py (sp is the spec argument)
build_search_payload_from_spec(sp) ==
  IF "mode" \notin DOMAIN sp THEN KeyError("mode")
  ELSE IF sp.mode = "single_stock_metric" THEN SingleMetricPayload(sp)
  ELSE IF sp.mode = "single_stock_overview" THEN OverviewPayload(sp)
  ELSE IF sp.mode = "list_by_index" THEN IndexPayload(sp)
  ELSE IF sp.mode = "list_by_sector" THEN SectorPayload(sp)
  ELSE IF sp.mode = "list_by_sector_with_filter" THEN SectorFilterPayload(sp)
  ELSE IF sp.mode = "list_by_metric_filter" THEN MetricFilterPayload(sp)
  ELSE FallbackPayload(sp)

\* the two clauses joined in the other order
IndexSectorPayload_sector_first(sp) ==
  LET idx == GetStr(sp, "index_code")
      sec == GetStr(sp, "sector")
  IN  ListPayload(overview_select,
                  (IF Truthy(sec) THEN <<SectorClause(sec)>> ELSE <<>>)
                  \o (IF Truthy(idx) THEN <<IndexClause(idx)>> ELSE <<>>))

\* 5) Index + Sector combination of src/payload_builder.py
IndexSectorPayload(sp) ==
  LET idx == GetStr(sp, "index_code")
      sec == GetStr(sp, "sector")
  IN  ListPayload(overview_select,
                  (IF Truthy(idx) THEN <<IndexClause(idx)>> ELSE <<>>)
                  \o (IF Truthy(sec) THEN <<SectorClause(sec)>> ELSE <<>>))

\* the branch of build_search_payload_from_spec of src/app.py that a spec
\* takes: the mode its if statement tests, or the code after the last one
build_branch(sp) ==
  IF "mode" \notin DOMAIN sp THEN "raised"
  ELSE IF sp.mode = "single_stock_metric" THEN "single_stock_metric"
  ELSE IF sp.mode = "single_stock_overview" THEN "single_stock_overview"
  ELSE IF sp.mode = "list_by_index" THEN "list_by_index"
  ELSE IF sp.mode = "list_by_sector" THEN "list_by_sector"
  ELSE IF sp.mode = "list_by_sector_with_filter" THEN "list_by_sector_with_filter"
  ELSE IF sp.mode = "list_by_metric_filter" THEN "list_by_metric_filter"
  ELSE "fallback"

\* the same for build_search_payload_from_spec of src/payload_builder.py
pb_build_branch(sp) ==
  IF "mode" \notin DOMAIN sp THEN "raised"
  ELSE IF sp.mode = "single_stock_metric" THEN "single_stock_metric"
  ELSE IF sp.mode = "single_stock_overview" THEN "single_stock_overview"
  ELSE IF sp.mode = "list_by_index" THEN "list_by_index"
  ELSE IF sp.mode = "list_by_sector" THEN "list_by_sector"
  ELSE IF sp.mode = "list_by_index_and_sector" THEN "list_by_index_and_sector"
  ELSE IF sp.mode = "list_by_sector_and_metric_filter"
  THEN "list_by_sector_and_metric_filter"
  ELSE IF sp.mode = "list_by_metric_filter" THEN "list_by_metric_filter"
  ELSE "fallback"

\* src/payload_builder.py
pb_build_search_payload_from_spec(sp) ==
  IF "mode" \notin DOMAIN sp THEN KeyError("mode")
  ELSE IF sp.mode = "single_stock_metric" THEN SingleMetricPayload(sp)
  ELSE IF sp.mode = "single_stock_overview" THEN OverviewPayload(sp)
  ELSE IF sp.mode = "list_by_index" THEN IndexPayload(sp)
  ELSE IF sp.mode = "list_by_sector" THEN SectorPayload(sp)
  ELSE IF sp.mode = "list_by_index_and_sector" THEN IndexSectorPayload(sp)
  ELSE IF sp.mode = "list_by_sector_and_metric_filter" THEN SectorFilterPayload(sp)
  ELSE IF sp.mode = "list_by_metric_filter" THEN MetricFilterPayload(sp)
  ELSE FallbackPayload(sp)

-----------------------------------------------------------------------------
(* The SDK backend of src/app_sdk.py.  Its tables, detectors, extractor,   *)
(* router and _build_metric_filter_odata repeat those of src/app.py        *)
(* statement for statement, so the operators above stand for both; its     *)
(* request builder is its own.                                             *)

sdk_overview_fields ==
  <<"Symbol", "SymbolRaw", "Name", "Sector", "MarketCapCr",
    "PE", "PB", "EPS", "DividendYieldPct", "AllIndices">>

\* the dict build_search_request_from_user_input_sdk returns, less "spec";
\* include_total_count keeps its default in every branch
sdk_Request(search_text, filter_clauses, select_fields, top) ==
  [search_text |-> search_text,
   filter_expr |-> IF filter_clauses = <<>> THEN None
                   ELSE Join(" and ", filter_clauses),
   select_fields |-> select_fields,
   top |-> top,
   include_total_count |-> TRUE]

sdk_SingleMetric(sp) ==
  IF "metric" \notin DOMAIN sp THEN KeyError("metric")
  ELSE IF "stock_query" \notin DOMAIN sp THEN KeyError("stock_query")
  ELSE LET essential_fields == <<"SymbolRaw", "Name", "Symbol">>
       IN  sdk_Request(sp.stock_query, <<>>,
                       IF InList(sp.metric, essential_fields) THEN essential_fields
                       ELSE Append(essential_fields, sp.metric),
                       1)

sdk_Overview(sp) ==
  IF "stock_query" \notin DOMAIN sp THEN KeyError("stock_query")
  ELSE sdk_Request(sp.stock_query, <<>>, sdk_overview_fields, 1)

sdk_Index(sp) ==
  LET idx == GetStr(sp, "index_code")
  IN  sdk_Request("*", IF Truthy(idx) THEN <<IndexClause(idx)>> ELSE <<>>,
                  sdk_overview_fields, 50)

sdk_Sector(sp) ==
  LET sec == GetStr(sp, "sector")
  IN  sdk_Request("*", IF Truthy(sec) THEN <<SectorClause(sec)>> ELSE <<>>,
                  sdk_overview_fields, 50)

sdk_SectorFilter(sp) ==
  LET sec == GetStr(sp, "sector")
      mf == GetObj(sp, "metric_filter")
      metric_odata == build_metric_filter_odata(mf)
  IN  sdk_Request("*",
                  (IF Truthy(sec) THEN <<SectorClause(sec)>> ELSE <<>>)
                  \o (IF Truthy(metric_odata) THEN <<metric_odata>> ELSE <<>>),
                  FilterSelect(mf), 50)

sdk_MetricFilter(sp) ==
  LET idx == GetStr(sp, "index_code")
      mf == GetObj(sp, "metric_filter")
      metric_odata == build_metric_filter_odata(mf)
  IN  sdk_Request("*",
                  (IF Truthy(idx) THEN <<IndexClause(idx)>> ELSE <<>>)
                  \o (IF Truthy(metric_odata) THEN <<metric_odata>> ELSE <<>>),
                  FilterSelect(mf)
                  \o (IF Truthy(idx) THEN <<"AllIndices">> ELSE <<>>),
                  50)

\* Fallback: spec.get("stock_query") or spec["raw"]["input"]
sdk_Fallback(sp) ==
  IF Truthy(GetStr(sp, "stock_query"))
  THEN sdk_Request(sp.stock_query, <<>>, sdk_overview_fields, 1)
  ELSE IF "raw" \notin DOMAIN sp THEN KeyError("raw")
  ELSE IF "input" \notin DOMAIN sp.raw THEN KeyError("input")
  ELSE sdk_Request(sp.raw.input, <<>>, sdk_overview_fields, 1)

\* build_search_request_from_user_input_sdk after its first statement
\* (sp is the local spec)
sdk_build_search_request(sp) ==
  IF "mode" \notin DOMAIN sp THEN KeyError("mode")
  ELSE IF sp.mode = "single_stock_metric" THEN sdk_SingleMetric(sp)
  ELSE IF sp.mode = "single_stock_overview" THEN sdk_Overview(sp)
  ELSE IF sp.mode = "list_by_index" THEN sdk_Index(sp)
  ELSE IF sp.mode = "list_by_sector" THEN sdk_Sector(sp)
  ELSE IF sp.mode = "list_by_sector_with_filter" THEN sdk_SectorFilter(sp)
  ELSE IF sp.mode = "list_by_metric_filter" THEN sdk_MetricFilter(sp)
  ELSE sdk_Fallback(sp)

-----------------------------------------------------------------------------
(* The requests of the model *)

\* the longest free combination of fragments
MaxParts == 3

\* Fragments joined by single spaces; the empty fragment yields leading,
\* trailing and doubled spaces, and the empty and the all-blank query.
Fragments ==
  <<"", "Nifty 50", "bank", "axis", "pe", "above 50", "stocks", "of", "finance", ">">>

RECURSIVE SeqsUpTo(_, _)
SeqsUpTo(S, n) ==
  IF n = 0 THEN {<<>>}
  ELSE LET shorter == SeqsUpTo(S, n - 1)
       IN  shorter \cup {Append(w, x) : w \in shorter, x \in S}

FreeInputs ==
  {Join(" ", w) : w \in SeqsUpTo({Fragments[i] : i \in 1..Len(Fragments)}, MaxParts)}

\* subject, listing words, metric phrase, comparison
Subjects == {"", "nifty 50", "nifty bank", "bank", "axis bank", "it", "titan", "reliance"}
ListingWords == {"", "stocks", "stocks with", "of"}
MetricWords == {"", "pe", "p/e", "market cap"}
Comparisons == {"", "above 50", "less than 50", "higher than 50", ">= 40.5"}

TemplateInputs ==
  {Join(" ", <<a, b, c, d>>) :
     a \in Subjects, b \in ListingWords, c \in MetricWords, d \in Comparisons}

\* "<metric phrase> of <company>"
Companies == {"reliance", "hdfc life", "m&m"}

MetricOfInputs ==
  {METRIC_ALIASES[m][1] \o " of " \o n : m \in 1..Len(METRIC_ALIASES), n \in Companies}

\* "<metric phrase> <comparator phrase> <number>"
Numerals == {"0", "50", "40.5"}

RangeInputs ==
  {METRIC_PATTERN[m] \o " " \o COMPARATOR_ALIASES[c][1] \o " " \o n :
     m \in 1..Len(METRIC_PATTERN), c \in 1..Len(COMPARATOR_ALIASES), n \in Numerals}

\* every index and sector alias, as a listing query
AliasInputs ==
  {INDEX_ALIASES[i][1] \o " stocks" : i \in 1..Len(INDEX_ALIASES)}
  \cup {SECTOR_ALIASES[i][1] \o " companies" : i \in 1..Len(SECTOR_ALIASES)}

\* the queries the source and its documentation give as examples, and
\* punctuation, gibberish and malformed numbers
ExampleInputs ==
  {"nifty 50 stocks with pe less than 50", "axis bank", "banking stocks",
   "pe of reliance", "it stocks with pe more than 40", "nifty 50",
   "nifty bank stocks with high pe", "nifty bank high pe", "banking", "infosys",
   "Infy PE", "PE of M&M", "Show HDFC Bank", "Nifty 50 stocks",
   "IT stocks with PE under 20", "NIFTYBANK constituents",
   "All stocks with PE more than 10", "healthcare stocks with pe less than 50",
   "Healthcare companies", "sensex banking stocks", "bajaj auto", "bajaj finance",
   "tata steel", "pe of titan", "axis bank pe", "sector banking pe",
   "?!", "...", "xyzzy", "pe above 1.2.3", "pe above .", "price",
   "petroleum price above 5", "pe above average under 20", "dividend yield under 2",
   "utilities stocks with dividend yield above 2"}

Inputs ==
  FreeInputs \cup TemplateInputs \cup MetricOfInputs \cup RangeInputs
  \cup AliasInputs \cup ExampleInputs

\* the router and compiler that serve the requests: src/app.py, or
\* src/query_parser.py with src/payload_builder.py
Impls == {"app", "query_parser"}

-----------------------------------------------------------------------------
(* The state machine: a query is parsed, then the spec is compiled *)

Init ==
  /\ tables = TablesAtImport
  /\ calls = << >>
  /\ results = {}
  /\ ServicesAtRest
  /\ impl \in Impls
  /\ input \in Inputs
  /\ text_lower = None
  /\ metric_info = NoneObj
  /\ index_code = None
  /\ sector = None
  /\ metric_filter = NoneObj
  /\ spec = NoneObj
  /\ payload = NoneObj
  /\ pc = "input"

\* app.parse_user_query(input)
ParseApp ==
  /\ pc = "input" /\ impl = "app"
  /\ text_lower' = normalize(input)
  /\ metric_info' = detect_metric(text_lower')
  /\ index_code' = detect_index_code(text_lower')
  /\ sector' = detect_sector(text_lower', input)
  /\ metric_filter' = detect_metric_filter(text_lower')
  /\ spec' = Route(input, text_lower', metric_info', index_code', sector', metric_filter')
  /\ pc' = "parsed"
  /\ tables' = TablesAfter(tables, "parse_user_query", spec')
  /\ UNCHANGED <<impl, input, payload, calls, results, services>>

\* app.build_search_payload_from_spec(spec)
CompileApp ==
  /\ pc = "parsed" /\ impl = "app"
  /\ payload' = build_search_payload_from_spec(spec)
  /\ pc' = "compiled"
  /\ spec' = SpecAfterBuild(spec)
  /\ tables' = TablesAfter(tables, "build_search_payload_from_spec", payload')
  /\ UNCHANGED <<impl, input, text_lower, metric_info, index_code, sector,
                 metric_filter, calls, results, services>>

\* query_parser.parse_user_query(input)
ParseQP ==
  /\ pc = "input" /\ impl = "query_parser"
  /\ text_lower' = normalize(input)
  /\ metric_info' = detect_metric(text_lower')
  /\ index_code' = detect_index_code(text_lower')
  /\ sector' = qp_detect_sector(text_lower', input)
  /\ metric_filter' = qp_detect_metric_filter(text_lower')
  /\ spec' = qp_Route(input, text_lower', metric_info', index_code', sector', metric_filter')
  /\ pc' = "parsed"
  /\ tables' = TablesAfter(tables, "parse_user_query", spec')
  /\ UNCHANGED <<impl, input, payload, calls, results, services>>

\* payload_builder.build_search_payload_from_spec(spec)
CompilePB ==
  /\ pc = "parsed" /\ impl = "query_parser"
  /\ payload' = pb_build_search_payload_from_spec(spec)
  /\ pc' = "compiled"
  /\ spec' = SpecAfterBuild(spec)
  /\ tables' = TablesAfter(tables, "build_search_payload_from_spec", payload')
  /\ UNCHANGED <<impl, input, text_lower, metric_info, index_code, sector,
                 metric_filter, calls, results, services>>

Next == ParseApp \/ CompileApp \/ ParseQP \/ CompilePB

Spec == Init /\ [][Next]_vars

-----------------------------------------------------------------------------
(* The compiler on its own: build_search_payload_from_spec is handed specs  *)
(* of every mode, the shapes the routers return and shapes only a caller    *)
(* can build (unknown comparators, missing thresholds, absent codes).       *)

IndexCodes == {INDEX_ALIASES[i][2] : i \in 1..Len(INDEX_ALIASES)}

SpecIndexCodes == {None, "NIFTY50", "NIFTYBANK"}
SpecSectors == {None, "Information Technology", "Financials"}
SpecMetrics == {None, "PE", "MarketCapCr", "Sector"}
SpecOps == {None, "lt", "gt", "le", "ge", "eq", ""}
SpecValues ==
  {NoneObj, [num |-> 0, scale |-> 0], [num |-> 50, scale |-> 0],
   [num |-> 405, scale |-> 1]}

SpecFilters ==
  {NoneObj}
  \cup {[metric |-> m, op |-> o, value |-> v] :
          m \in SpecMetrics, o \in SpecOps, v \in SpecValues}

SpecRaw == [input |-> "some query"]

HandSpecs ==
  {[mode |-> "list_by_index", index_code |-> c, metric_filter |-> NoneObj,
    raw |-> SpecRaw] : c \in IndexCodes \cup {None}}
  \cup {[mode |-> "list_by_sector", sector |-> sec, raw |-> SpecRaw] :
          sec \in SpecSectors}
  \cup {[mode |-> "list_by_index_and_sector", index_code |-> c, sector |-> sec,
         raw |-> SpecRaw] : c \in SpecIndexCodes, sec \in SpecSectors}
  \cup {[mode |-> md, sector |-> sec, metric_filter |-> f, raw |-> SpecRaw] :
          md \in {"list_by_sector_with_filter", "list_by_sector_and_metric_filter"},
          sec \in SpecSectors, f \in SpecFilters}
  \cup {[mode |-> "list_by_metric_filter", index_code |-> c, metric_filter |-> f,
         raw |-> SpecRaw] : c \in SpecIndexCodes, f \in SpecFilters}
  \cup {[mode |-> "list_by_metric_filter", metric_filter |-> f, raw |-> SpecRaw] :
          f \in SpecFilters}
  \cup {[mode |-> "single_stock_metric", stock_query |-> q, metric |-> m,
         raw |-> SpecRaw] :
          q \in {"reliance", "hdfc life"}, m \in {"PE", "PRICE", "Symbol", "Name"}}
  \cup {[mode |-> "single_stock_overview", stock_query |-> q, raw |-> SpecRaw] :
          q \in {"reliance", "hdfc life"}}
  \cup {[mode |-> "unknown", raw |-> SpecRaw, error |-> "Could not parse query."],
        [mode |-> "unknown", stock_query |-> "reliance", raw |-> SpecRaw],
        [mode |-> "unknown", stock_query |-> "", raw |-> SpecRaw]}

CompilerInit ==
  /\ tables = TablesAtImport
  /\ calls = << >>
  /\ results = {}
  /\ ServicesAtRest
  /\ impl \in Impls
  /\ spec \in HandSpecs
  /\ input = spec.raw.input
  /\ text_lower = None
  /\ metric_info = NoneObj
  /\ index_code = None
  /\ sector = None
  /\ metric_filter = NoneObj
  /\ payload = NoneObj
  /\ pc = "parsed"

CompilerNext == CompileApp \/ CompilePB

CompilerSpec == CompilerInit /\ [][CompilerNext]_vars

-----------------------------------------------------------------------------
(* Calls side by side.  The functions take no lock, so threads that call   *)
(* them interleave between statements.  Every call has the locals of       *)
(* parse_user_query; a step of a call is one statement of the body (the    *)
(* normalisation and the four detectors, lines 577-582), then the routing  *)
(* rules, then the compiler on the spec that came back.  A call that runs  *)
(* from its first step to its last before any other starts is a call made  *)
(* before the others; a caller whose call has finished keeps what came     *)
(* back and may call again.                                                *)

NumCalls == 2

SessionInputs == {"pe of reliance", "nifty 50 stocks with pe below 50"}

NewCall(user_input) ==
  [input |-> user_input, pc |-> "input", text_lower |-> None,
   metric_info |-> NoneObj, index_code |-> None, sector |-> None,
   metric_filter |-> NoneObj, spec |-> NoneObj, payload |-> NoneObj]

\* the variables of the single request of Spec, at rest while calls run side
\* by side
request == <<input, text_lower, metric_info, index_code, sector,
             metric_filter, spec, payload, pc, impl>>

CallsInit ==
  /\ tables = TablesAtImport
  /\ calls \in [1..NumCalls -> {NewCall(q) : q \in SessionInputs}]
  /\ results = {}
  /\ ServicesAtRest
  /\ impl \in Impls
  /\ input = None
  /\ text_lower = None
  /\ metric_info = NoneObj
  /\ index_code = None
  /\ sector = None
  /\ metric_filter = NoneObj
  /\ spec = NoneObj
  /\ payload = NoneObj
  /\ pc = "calls"

\* text_lower = normalize(user_input)
CallNormalize(c) ==
  /\ calls[c].pc = "input"
  /\ calls' = [calls EXCEPT ![c].text_lower = normalize(calls[c].input),
                            ![c].pc = "normalized"]
  /\ tables' = TablesAfter(tables, "normalize", calls'[c].text_lower)
  /\ UNCHANGED <<request, results, services>>

\* metric_info = detect_metric(text_lower)
CallDetectMetric(c) ==
  /\ calls[c].pc = "normalized"
  /\ calls' = [calls EXCEPT ![c].metric_info = detect_metric(calls[c].text_lower),
                            ![c].pc = "metric"]
  /\ tables' = TablesAfter(tables, "detect_metric", calls'[c].metric_info)
  /\ UNCHANGED <<request, results, services>>

\* index_code = detect_index_code(text_lower)
CallDetectIndex(c) ==
  /\ calls[c].pc = "metric"
  /\ calls' = [calls EXCEPT ![c].index_code = detect_index_code(calls[c].text_lower),
                            ![c].pc = "index"]
  /\ tables' = TablesAfter(tables, "detect_index_code", calls'[c].index_code)
  /\ UNCHANGED <<request, results, services>>

\* sector = detect_sector(text_lower, user_input)
CallDetectSector(c) ==
  /\ calls[c].pc = "index"
  /\ calls' = [calls EXCEPT
       ![c].sector = IF impl = "app"
                     THEN detect_sector(calls[c].text_lower, calls[c].input)
                     ELSE qp_detect_sector(calls[c].text_lower, calls[c].input),
       ![c].pc = "sector"]
  /\ tables' = TablesAfter(tables, "detect_sector", calls'[c].sector)
  /\ UNCHANGED <<request, results, services>>

\* metric_filter = detect_metric_filter(text_lower)
CallDetectMetricFilter(c) ==
  /\ calls[c].pc = "sector"
  /\ calls' = [calls EXCEPT
       ![c].metric_filter = IF impl = "app"
                            THEN detect_metric_filter(calls[c].text_lower)
                            ELSE qp_detect_metric_filter(calls[c].text_lower),
       ![c].pc = "metric_filter"]
  /\ tables' = TablesAfter(tables, "detect_metric_filter", calls'[c].metric_filter)
  /\ UNCHANGED <<request, results, services>>

\* the routing rules, to the return of parse_user_query
CallRoute(c) ==
  /\ calls[c].pc = "metric_filter"
  /\ calls' = [calls EXCEPT
       ![c].spec = IF impl = "app"
                   THEN Route(calls[c].input, calls[c].text_lower,
                              calls[c].metric_info, calls[c].index_code,
                              calls[c].sector, calls[c].metric_filter)
                   ELSE qp_Route(calls[c].input, calls[c].text_lower,
                                 calls[c].metric_info, calls[c].index_code,
                                 calls[c].sector, calls[c].metric_filter),
       ![c].pc = "parsed"]
  /\ tables' = TablesAfter(tables, "parse_user_query", calls'[c].spec)
  /\ UNCHANGED <<request, results, services>>

\* build_search_payload_from_spec(spec)
CallCompile(c) ==
  /\ calls[c].pc = "parsed"
  /\ calls' = [calls EXCEPT
       ![c].payload = IF impl = "app"
                      THEN build_search_payload_from_spec(calls[c].spec)
                      ELSE pb_build_search_payload_from_spec(calls[c].spec),
       ![c].spec = SpecAfterBuild(calls[c].spec),
       ![c].pc = "compiled"]
  /\ tables' = TablesAfter(tables, "build_search_payload_from_spec",
                           calls'[c].payload)
  /\ UNCHANGED <<request, results, services>>

\* the caller keeps the spec and the payload and calls again
CallAgain(c) ==
  /\ calls[c].pc = "compiled"
  /\ results' = results \cup {[input |-> calls[c].input, spec |-> calls[c].spec,
                               payload |-> calls[c].payload]}
  /\ \E q \in SessionInputs : calls' = [calls EXCEPT ![c] = NewCall(q)]
  /\ UNCHANGED <<request, tables, services>>

CallsNext ==
  \E c \in 1..NumCalls :
    \/ CallNormalize(c)
    \/ CallDetectMetric(c)
    \/ CallDetectIndex(c)
    \/ CallDetectSector(c)
    \/ CallDetectMetricFilter(c)
    \/ CallRoute(c)
    \/ CallCompile(c)
    \/ CallAgain(c)

CallsSpec == CallsInit /\ [][CallsNext]_vars

-----------------------------------------------------------------------------
(* The SDK backend serving a request: build_search_request_from_user_input_ *)
(* sdk parses the text with its own copy of the router and then builds the *)
(* parameters of the SDK call; payload holds those parameters.             *)

BackendsInit ==
  /\ tables = TablesAtImport
  /\ calls = << >>
  /\ results = {}
  /\ ServicesAtRest
  /\ impl = "app_sdk"
  /\ input \in Inputs
  /\ text_lower = None
  /\ metric_info = NoneObj
  /\ index_code = None
  /\ sector = None
  /\ metric_filter = NoneObj
  /\ spec = NoneObj
  /\ payload = NoneObj
  /\ pc = "input"

\* spec = parse_user_query(user_input), in src/app_sdk.py
ParseSDK ==
  /\ pc = "input" /\ impl = "app_sdk"
  /\ text_lower' = normalize(input)
  /\ metric_info' = detect_metric(text_lower')
  /\ index_code' = detect_index_code(text_lower')
  /\ sector' = detect_sector(text_lower', input)
  /\ metric_filter' = detect_metric_filter(text_lower')
  /\ spec' = Route(input, text_lower', metric_info', index_code', sector', metric_filter')
  /\ pc' = "parsed"
  /\ tables' = TablesAfter(tables, "parse_user_query", spec')
  /\ UNCHANGED <<impl, input, payload, calls, results, services>>

\* the rest of build_search_request_from_user_input_sdk
BuildSDK ==
  /\ pc = "parsed" /\ impl = "app_sdk"
  /\ payload' = sdk_build_search_request(spec)
  /\ pc' = "compiled"
  /\ tables' = TablesAfter(tables, "build_search_request_from_user_input_sdk",
                           payload')
  /\ UNCHANGED <<impl, input, text_lower, metric_info, index_code, sector,
                 metric_filter, spec, calls, results, services>>

BackendsNext == ParseSDK \/ BuildSDK

BackendsSpec == BackendsInit /\ [][BackendsNext]_vars

-----------------------------------------------------------------------------
(* The lazily created clients.  get_search_client (src/app_sdk.py) and     *)
(* CosmosDBStockQuery.__init__ (src/db_parser.py) test a shared name for   *)
(* None, construct a client and store it; neither takes a lock, so threads *)
(* that ask for a client interleave between statements.  A thread that has *)
(* its client may ask again.                                               *)

NumThreads == 2

ClientFunctions == {"get_search_client", "CosmosDBStockQuery"}

\* a thread about to call fn: made is the client it constructed itself (0:
\* none), client, database and container are what the caller ends up with
NewThread(fn) ==
  [fn |-> fn, pc |-> "call", made |-> 0,
   client |-> 0, database |-> 0, container |-> 0]

\* the variables of the parsing side, at rest while threads ask for clients
parsing == <<request, tables, calls, results>>

NoParsing ==
  /\ tables = TablesAtImport
  /\ calls = << >>
  /\ results = {}
  /\ impl = None
  /\ input = None
  /\ text_lower = None
  /\ metric_info = NoneObj
  /\ index_code = None
  /\ sector = None
  /\ metric_filter = NoneObj
  /\ spec = NoneObj
  /\ payload = NoneObj
  /\ pc = "none"

SingletonInit ==
  /\ NoParsing
  /\ singletons = NoClients
  /\ threads \in [1..NumThreads -> {NewThread(fn) : fn \in ClientFunctions}]
  /\ cosmos_app = NoneObj

At(t, fn, where) == threads[t].fn = fn /\ threads[t].pc = where

\* if _search_client is None:
SearchTest(t) ==
  /\ At(t, "get_search_client", "call")
  /\ threads' = [threads EXCEPT ![t].pc =
                   IF singletons.search_client = 0 THEN "construct" ELSE "return"]
  /\ UNCHANGED <<singletons, parsing, cosmos_app>>

\* SearchClient(endpoint=..., index_name=..., credential=credential)
SearchConstruct(t) ==
  /\ At(t, "get_search_client", "construct")
  /\ singletons' = [singletons EXCEPT !.made_search = @ + 1]
  /\ threads' = [threads EXCEPT ![t].made = singletons.made_search + 1,
                                ![t].pc = "store"]
  /\ UNCHANGED <<parsing, cosmos_app>>

\* _search_client = the client just constructed
SearchStore(t) ==
  /\ At(t, "get_search_client", "store")
  /\ singletons' = [singletons EXCEPT !.search_client = threads[t].made]
  /\ threads' = [threads EXCEPT ![t].pc = "return"]
  /\ UNCHANGED <<parsing, cosmos_app>>

\* return _search_client
SearchReturn(t) ==
  /\ At(t, "get_search_client", "return")
  /\ threads' = [threads EXCEPT ![t].client = singletons.search_client,
                                ![t].pc = "done"]
  /\ UNCHANGED <<singletons, parsing, cosmos_app>>

\* if CosmosDBStockQuery._client is None:
CosmosTest(t) ==
  /\ At(t, "CosmosDBStockQuery", "call")
  /\ threads' = [threads EXCEPT ![t].pc =
                   IF singletons.cosmos_client = 0 THEN "construct" ELSE "self_client"]
  /\ UNCHANGED <<singletons, parsing, cosmos_app>>

\* CosmosClient(url=COSMOS_ENDPOINT, credential=credential)
CosmosConstruct(t) ==
  /\ At(t, "CosmosDBStockQuery", "construct")
  /\ singletons' = [singletons EXCEPT !.made_cosmos = @ + 1]
  /\ threads' = [threads EXCEPT ![t].made = singletons.made_cosmos + 1,
                                ![t].pc = "store"]
  /\ UNCHANGED <<parsing, cosmos_app>>

\* CosmosDBStockQuery._client = the client just constructed
CosmosStore(t) ==
  /\ At(t, "CosmosDBStockQuery", "store")
  /\ singletons' = [singletons EXCEPT !.cosmos_client = threads[t].made]
  /\ threads' = [threads EXCEPT ![t].pc = "database"]
  /\ UNCHANGED <<parsing, cosmos_app>>

\* CosmosDBStockQuery._database = CosmosDBStockQuery._client.get_database_client(...)
\* (a database or container handle is written as the number of its client)
CosmosDatabase(t) ==
  /\ At(t, "CosmosDBStockQuery", "database")
  /\ singletons' = [singletons EXCEPT !.cosmos_database = singletons.cosmos_client]
  /\ threads' = [threads EXCEPT ![t].pc = "container"]
  /\ UNCHANGED <<parsing, cosmos_app>>

\* CosmosDBStockQuery._container = CosmosDBStockQuery._database.get_container_client(...)
CosmosContainer(t) ==
  /\ At(t, "CosmosDBStockQuery", "container")
  /\ singletons' = [singletons EXCEPT !.cosmos_container = singletons.cosmos_database]
  /\ threads' = [threads EXCEPT ![t].pc = "self_client"]
  /\ UNCHANGED <<parsing, cosmos_app>>

\* self.client = CosmosDBStockQuery._client
CosmosSelfClient(t) ==
  /\ At(t, "CosmosDBStockQuery", "self_client")
  /\ threads' = [threads EXCEPT ![t].client = singletons.cosmos_client,
                                ![t].pc = "self_database"]
  /\ UNCHANGED <<singletons, parsing, cosmos_app>>

\* self.database = CosmosDBStockQuery._database
CosmosSelfDatabase(t) ==
  /\ At(t, "CosmosDBStockQuery", "self_database")
  /\ threads' = [threads EXCEPT ![t].database = singletons.cosmos_database,
                                ![t].pc = "self_container"]
  /\ UNCHANGED <<singletons, parsing, cosmos_app>>

\* self.container = CosmosDBStockQuery._container
CosmosSelfContainer(t) ==
  /\ At(t, "CosmosDBStockQuery", "self_container")
  /\ threads' = [threads EXCEPT ![t].container = singletons.cosmos_container,
                                ![t].pc = "done"]
  /\ UNCHANGED <<singletons, parsing, cosmos_app>>

\* the thread asks for a client again
AskAgain(t) ==
  /\ threads[t].pc = "done"
  /\ \E fn \in ClientFunctions : threads' = [threads EXCEPT ![t] = NewThread(fn)]
  /\ UNCHANGED <<singletons, parsing, cosmos_app>>

SingletonNext ==
  \E t \in 1..NumThreads :
    \/ SearchTest(t)
    \/ SearchConstruct(t)
    \/ SearchStore(t)
    \/ SearchReturn(t)
    \/ CosmosTest(t)
    \/ CosmosConstruct(t)
    \/ CosmosStore(t)
    \/ CosmosDatabase(t)
    \/ CosmosContainer(t)
    \/ CosmosSelfClient(t)
    \/ CosmosSelfDatabase(t)
    \/ CosmosSelfContainer(t)
    \/ AskAgain(t)

SingletonSpec == SingletonInit /\ [][SingletonNext]_vars

-----------------------------------------------------------------------------
(* CosmosDynamicQueryApp.process_query (src/search_app_cosmos.py).  The    *)
(* answers of Azure AI Search and of Cosmos DB are the environment's; the  *)
(* calls that leave the process are kept, in order, in trace.  Timings are *)
(* left out.                                                               *)

\* load_cosmos_config's default configuration: field and aliases, in the
\* order of the dict
cosmos_config_fields ==
  << <<"Price", <<"price">> >>, <<"Change", <<"change">> >>,
     <<"ChangePercent", <<"change percent", "percentage">> >> >>

\* any alias of the k-th field occurs in the lowered query
FieldMentioned(k, query_lower) ==
  \E a \in 1..Len(cosmos_config_fields[k][2]) :
    Contains(query_lower, Lower(cosmos_config_fields[k][2][a]))

RECURSIVE FieldsFrom(_, _)
FieldsFrom(k, query_lower) ==
  IF k > Len(cosmos_config_fields) THEN << >>
  ELSE (IF FieldMentioned(k, query_lower)
        THEN <<cosmos_config_fields[k][1]>> ELSE << >>)
       \o FieldsFrom(k + 1, query_lower)

AllFields == [k \in 1..Len(cosmos_config_fields) |-> cosmos_config_fields[k][1]]

\* the fields the query mentions, or all fields when it mentions none
parse_fields_from_query(query) ==
  IF FieldsFrom(1, Lower(query)) = << >> THEN AllFields
  ELSE FieldsFrom(1, Lower(query))

max_words == <<"highest", "maximum", "max", "peak", "top">>
min_words == <<"lowest", "minimum", "min", "bottom">>

AnyWordIn(words, query_lower) ==
  \E w \in 1..Len(words) : Contains(query_lower, words[w])

AggregationWord(query_lower) ==
  IF AnyWordIn(max_words, query_lower) THEN "MAX"
  ELSE IF AnyWordIn(min_words, query_lower) THEN "MIN"
  ELSE None

\* (aggregation_type, field_name), or (None, None)
detect_aggregation(query) ==
  IF AggregationWord(Lower(query)) = None THEN <<None, None>>
  ELSE IF \E k \in 1..Len(cosmos_config_fields) : FieldMentioned(k, Lower(query))
  THEN <<AggregationWord(Lower(query)),
         cosmos_config_fields[CHOOSE k \in 1..Len(cosmos_config_fields) :
            /\ FieldMentioned(k, Lower(query))
            /\ \A j \in 1..(k - 1) : ~FieldMentioned(j, Lower(query))][1]>>
  ELSE <<None, None>>

\* `if not symbol_raw` that tests for None only
SymbolMissing_is_none(symbol_raw) == symbol_raw = None

\* if not symbol_raw:
SymbolMissing(symbol_raw) == ~Truthy(symbol_raw)

\* if aggregation_type and agg_field:
WantsAggregation(aggregation_type, agg_field) ==
  Truthy(aggregation_type) /\ Truthy(agg_field)

\* the search text resolve_symbol_from_ai_search sends:
\* spec.get("stock_query", query)
SymbolSearchText(query) ==
  IF "stock_query" \in DOMAIN qp_parse_user_query(query)
  THEN qp_parse_user_query(query).stock_query
  ELSE query

\* a local that is not yet assigned (requested_fields: the empty list)
Unset == "<unset>"

CosmosQueries ==
  {"What is the price of Reliance?", "Show me price and change for TCS",
   "What is the highest price for HDFC?", "Get all data for INFY",
   "lowest change percent of tcs", "maximum for infy", "top banking stocks",
   "minimum percentage for reliance", "infy"}

\* what Azure AI Search may answer with as SymbolRaw: nothing (an error, no
\* hit, or a hit without the field), an empty string, or a symbol
SymbolAnswers == {None, "", "RELIANCE", "TCS"}

\* what Cosmos DB may answer with: None, an empty dict, or data
CosmosAnswers == {NoneObj, [rows |-> 0], [rows |-> 1]}

NewQuery(query) ==
  [pc |-> "start", query |-> query, requested_fields |-> << >>,
   aggregation_type |-> Unset, agg_field |-> Unset, symbol_raw |-> Unset,
   result |-> Unset, success |-> Unset, trace |-> << >>]

CosmosInit ==
  /\ NoParsing
  /\ singletons = NoClients
  /\ threads = << >>
  /\ cosmos_app \in {NewQuery(q) : q \in CosmosQueries}

\* Step 1: requested_fields, parse_time = self.parse_fields_from_query(query)
ParseFields ==
  /\ cosmos_app.pc = "start"
  /\ cosmos_app' = [cosmos_app EXCEPT
       !.requested_fields = parse_fields_from_query(cosmos_app.query),
       !.pc = "fields"]
  /\ UNCHANGED <<parsing, singletons, threads>>

\* Step 1b: aggregation_type, agg_field = self.detect_aggregation(query)
DetectAggregation ==
  /\ cosmos_app.pc = "fields"
  /\ cosmos_app' = [cosmos_app EXCEPT
       !.aggregation_type = detect_aggregation(cosmos_app.query)[1],
       !.agg_field = detect_aggregation(cosmos_app.query)[2],
       !.pc = "aggregation"]
  /\ UNCHANGED <<parsing, singletons, threads>>

\* Step 2: symbol_raw, symbol, search_time = self.resolve_symbol_from_ai_search(query)
ResolveSymbol ==
  /\ cosmos_app.pc = "aggregation"
  /\ \E answer \in SymbolAnswers :
       cosmos_app' = [cosmos_app EXCEPT
         !.symbol_raw = answer,
         !.trace = Append(@, [service |-> "ai_search",
                              search |-> SymbolSearchText(cosmos_app.query)]),
         !.pc = "resolved"]
  /\ UNCHANGED <<parsing, singletons, threads>>

\* if not symbol_raw: return {"success": False, ...}
ReturnNoSymbol ==
  /\ cosmos_app.pc = "resolved"
  /\ SymbolMissing(cosmos_app.symbol_raw)
  /\ cosmos_app' = [cosmos_app EXCEPT !.success = FALSE, !.pc = "returned"]
  /\ UNCHANGED <<parsing, singletons, threads>>

\* Step 3: get_stock_aggregation(symbol_raw, agg_field, aggregation_type)
QueryAggregation ==
  /\ cosmos_app.pc = "resolved"
  /\ ~SymbolMissing(cosmos_app.symbol_raw)
  /\ WantsAggregation(cosmos_app.aggregation_type, cosmos_app.agg_field)
  /\ \E answer \in CosmosAnswers :
       cosmos_app' = [cosmos_app EXCEPT
         !.result = answer,
         !.trace = Append(@, [service |-> "cosmos", query |-> "aggregation",
                              symbol |-> cosmos_app.symbol_raw,
                              field |-> cosmos_app.agg_field,
                              aggregation |-> cosmos_app.aggregation_type]),
         !.pc = "queried"]
  /\ UNCHANGED <<parsing, singletons, threads>>

\* Step 3: get_latest_stock_data(symbol_raw, requested_fields)
QueryLatest ==
  /\ cosmos_app.pc = "resolved"
  /\ ~SymbolMissing(cosmos_app.symbol_raw)
  /\ ~WantsAggregation(cosmos_app.aggregation_type, cosmos_app.agg_field)
  /\ \E answer \in CosmosAnswers :
       cosmos_app' = [cosmos_app EXCEPT
         !.result = answer,
         !.trace = Append(@, [service |-> "cosmos", query |-> "latest",
                              symbol |-> cosmos_app.symbol_raw,
                              fields |-> cosmos_app.requested_fields]),
         !.pc = "queried"]
  /\ UNCHANGED <<parsing, singletons, threads>>

\* if not result: return {"success": False, ...}; else Step 4: return
\* {"success": True, "data": result, ...}
ReturnResult ==
  /\ cosmos_app.pc = "queried"
  /\ cosmos_app' = [cosmos_app EXCEPT
       !.success = (cosmos_app.result = [rows |-> 1]),
       !.pc = "returned"]
  /\ UNCHANGED <<parsing, singletons, threads>>

CosmosNext ==
  \/ ParseFields
  \/ DetectAggregation
  \/ ResolveSymbol
  \/ ReturnNoSymbol
  \/ QueryAggregation
  \/ QueryLatest
  \/ ReturnResult

CosmosSpec == CosmosInit /\ [][CosmosNext]_vars

-----------------------------------------------------------------------------
(* Properties *)

Parsed == pc # "input"

\* the residual stock name of the query
Residual == extract_stock_query(input, text_lower, metric_info)

\* the query looks like a listing query: a listing-context keyword in the
\* text, or an empty residual stock name, or at most 3 tokens
LooksLikeListing ==
  \/ \E kw \in {"stocks", "companies", "list", "show", "all", "in", "sector"} :
       Contains(text_lower, kw)
  \/ Residual = None
  \/ Len(Split(text_lower)) <= 3

SpecFilter ==
  [metric |-> metric_filter.metric, op |-> metric_filter.op,
   value |-> metric_filter.value]

Fifty == [num |-> 50, scale |-> 0]
Forty == [num |-> 40, scale |-> 0]

\* The ordered rule table of the router over the four detector results.
PriorityRules ==
  << <<index_code # None /\ metric_filter # NoneObj, "list_by_metric_filter">>,
     <<sector # None /\ metric_filter # NoneObj /\ LooksLikeListing,
       "list_by_sector_with_filter">>,
     <<index_code # None /\ metric_info = NoneObj, "list_by_index">>,
     <<sector # None /\ LooksLikeListing, "list_by_sector">>,
     <<metric_filter # NoneObj, "list_by_metric_filter">>,
     <<metric_info # NoneObj /\ Residual # None, "single_stock_metric">>,
     <<metric_info # NoneObj /\ Residual = None, "list_by_metric_filter">>,
     <<TRUE, "single_stock_overview">> >>

FirstRule ==
  CHOOSE i \in 1..Len(PriorityRules) :
    PriorityRules[i][1] /\ \A j \in 1..(i - 1) : ~PriorityRules[j][1]

\* C1: app.py parse_user_query returns the mode of the first of the eight
\* rules, taken in order, that matches the four detector results; rule 7
\* yields list_by_metric_filter without comparator and threshold.
C1_PriorityOrder ==
  (impl = "app" /\ Parsed) =>
    /\ spec.mode = PriorityRules[FirstRule][2]
    /\ FirstRule = 7 =>
         spec.metric_filter.op = None /\ spec.metric_filter.value = NoneObj

\* several rules match at once (1, 2 and 5) and the first one wins
C1_Witness ==
  /\ impl = "app" /\ pc = "parsed"
  /\ PriorityRules[1][1] /\ PriorityRules[2][1] /\ PriorityRules[5][1]
  /\ spec.mode = "list_by_metric_filter"

\* C2: whenever an index and a range filter are both detected, the result is
\* list_by_metric_filter with that index code and the filter's metric,
\* operator and threshold, whatever sector or residual name is detected;
\* "nifty 50 stocks with pe less than 50" gives NIFTY50 and PE lt 50.0.
C2_IndexAndFilter ==
  /\ (Parsed /\ index_code # None /\ metric_filter # NoneObj) =>
       /\ spec.mode = "list_by_metric_filter"
       /\ spec.index_code = index_code
       /\ spec.metric_filter = SpecFilter
  /\ (Parsed /\ input = "nifty 50 stocks with pe less than 50") =>
       /\ spec.mode = "list_by_metric_filter"
       /\ spec.index_code = "NIFTY50"
       /\ spec.metric_filter = [metric |-> "PE", op |-> "lt", value |-> Fifty]

\* an index and a range filter, with a sector and a residual name detected too
C2_Witness ==
  /\ pc = "parsed" /\ impl = "app"
  /\ input = "nifty 50 stocks with pe less than 50"
  /\ index_code # None /\ metric_filter # NoneObj
  /\ sector # None /\ Residual # None
  /\ spec.mode = "list_by_metric_filter"

detect_listing_words ==
  {"stocks", "companies", "list", "show", "sector", "all", "in", "please", "me"}

\* a query of at most 3 tokens, none of them a listing-context keyword, in
\* which the last word of a sector alias that occurs in the text is a token
\* preceded by a token that is no sector modifier and longer than 2 characters
CompanyNameShape ==
  LET tokens == Split(text_lower)
  IN  /\ Len(tokens) <= 3
      /\ \A k \in 1..Len(tokens) : tokens[k] \notin detect_listing_words
      /\ \E p \in 1..Len(SECTOR_ALIASES), k \in 2..Len(tokens) :
           /\ Contains(text_lower, SECTOR_ALIASES[p][1])
           /\ LET words == Split(SECTOR_ALIASES[p][1])
              IN  tokens[k] = words[Len(words)]
           /\ tokens[k - 1] \notin sector_modifiers
           /\ Len(tokens[k - 1]) > 2

\* C3: for a query of that shape detect_sector returns None, so the result
\* is neither list_by_sector nor list_by_sector_with_filter.
C3_CompanyNameGuard ==
  (impl = "app" /\ Parsed /\ CompanyNameShape) =>
    /\ sector = None
    /\ spec.mode \notin {"list_by_sector", "list_by_sector_with_filter"}

\* C4: for every phrase M of the metric alias table and company name N of
\* non-stopword tokens, "M of N" is routed to single_stock_metric with
\* stock_query N and the canonical column of M.
C4_MetricOfCompany ==
  \A m \in 1..Len(METRIC_ALIASES), n \in Companies :
    (impl = "app" /\ Parsed /\ input = METRIC_ALIASES[m][1] \o " of " \o n) =>
      /\ spec.mode = "single_stock_metric"
      /\ spec.stock_query = n
      /\ spec.metric = METRIC_ALIASES[m][2]

\* C5: a sector and a range filter, no index, and a query that looks like a
\* listing query give list_by_sector_with_filter with the canonical sector
\* and the filter; "it stocks with pe more than 40" gives Information
\* Technology and PE gt 40.0.
C5_SectorWithFilter ==
  /\ (impl = "app" /\ Parsed /\ sector # None /\ metric_filter # NoneObj
        /\ index_code = None /\ LooksLikeListing) =>
       /\ spec.mode = "list_by_sector_with_filter"
       /\ spec.sector = sector
       /\ spec.metric_filter = SpecFilter
  /\ (impl = "app" /\ Parsed /\ input = "it stocks with pe more than 40") =>
       /\ spec.mode = "list_by_sector_with_filter"
       /\ spec.sector = "Information Technology"
       /\ spec.metric_filter = [metric |-> "PE", op |-> "gt", value |-> Forty]

C5_Witness ==
  /\ impl = "app" /\ pc = "parsed"
  /\ input = "it stocks with pe more than 40"
  /\ sector # None /\ metric_filter # NoneObj /\ index_code = None
  /\ LooksLikeListing
  /\ spec.mode = "list_by_sector_with_filter"

\* C6: an index and no metric phrase give list_by_index with that index code
\* and no metric filter, also when a sector is detected in the same query;
\* "nifty 50" gives NIFTY50.
C6_IndexOnly ==
  /\ (impl = "app" /\ Parsed /\ index_code # None /\ metric_info = NoneObj) =>
       /\ spec.mode = "list_by_index"
       /\ spec.index_code = index_code
       /\ spec.metric_filter = NoneObj
  /\ (impl = "app" /\ Parsed /\ input = "nifty 50") =>
       spec.mode = "list_by_index" /\ spec.index_code = "NIFTY50"

\* an index, no metric, and a sector detected in the same query
C6_Witness ==
  /\ impl = "app" /\ pc = "parsed"
  /\ index_code # None /\ metric_info = NoneObj /\ sector # None
  /\ spec.mode = "list_by_index"

\* C7: for every phrase c of the comparator alias table, every metric
\* phrase m of the range pattern and every numeral n, detect_metric_filter
\* on "m c n" returns the canonical operator of c, the canonical column of
\* m and the threshold n.
C7_ComparatorTable ==
  \A m \in 1..Len(METRIC_PATTERN), c \in 1..Len(COMPARATOR_ALIASES), n \in Numerals :
    (impl = "app" /\ Parsed
       /\ input = METRIC_PATTERN[m] \o " " \o COMPARATOR_ALIASES[c][1] \o " " \o n) =>
      /\ metric_filter # NoneObj
      /\ metric_filter.op = COMPARATOR_ALIASES[c][2]
      /\ metric_filter.metric = Get(METRIC_ALIASES, METRIC_PATTERN[m])
      /\ metric_filter.value = ParseFloat(n)

\* the entries of a table whose phrase occurs in the text, and the longest
Occurring(table) == {i \in 1..Len(table) : Contains(text_lower, table[i][1])}

Longest(table) ==
  {i \in Occurring(table) :
     \A j \in Occurring(table) : Len(table[j][1]) <= Len(table[i][1])}

\* C8: the phrase a detector selects from the metric, index or sector table
\* occurs in the text and no occurring phrase of the table is strictly
\* longer; of two occurring phrases one inside the other, the shorter is
\* never the one selected.
C8_LongestMatch ==
  Parsed =>
    /\ metric_info # NoneObj =>
         /\ \E i \in Longest(METRIC_ALIASES) :
              metric_info = [phrase |-> METRIC_ALIASES[i][1],
                             column |-> METRIC_ALIASES[i][2]]
         /\ \A i, j \in Occurring(METRIC_ALIASES) :
              (i # j /\ Contains(METRIC_ALIASES[j][1], METRIC_ALIASES[i][1])) =>
                metric_info.phrase # METRIC_ALIASES[i][1]
    /\ index_code # None =>
         \E i \in Longest(INDEX_ALIASES) : index_code = INDEX_ALIASES[i][2]
    /\ sector # None =>
         \E i \in Longest(SECTOR_ALIASES) : sector = SECTOR_ALIASES[i][2]

\* in each table a phrase and a longer phrase around it occur, with
\* different values in the sector table ("it" inside "utilities")
C8_Witness ==
  /\ pc = "parsed"
  /\ metric_info # NoneObj /\ Cardinality(Occurring(METRIC_ALIASES)) > 1
  /\ \E i, j \in Occurring(SECTOR_ALIASES) :
       /\ Contains(SECTOR_ALIASES[j][1], SECTOR_ALIASES[i][1])
       /\ SECTOR_ALIASES[i][2] # SECTOR_ALIASES[j][2]
       /\ sector = SECTOR_ALIASES[j][2]

\* the modes of the data model, with the name query_parser.py gives the
\* sector + filter mode
DefinedModes ==
  {"single_stock_metric", "single_stock_overview", "list_by_index",
   "list_by_sector", "list_by_sector_with_filter", "list_by_metric_filter",
   "list_by_index_and_sector", "list_by_sector_and_metric_filter", "unknown"}

\* C9: no input makes the router or the compiler raise: every input yields
\* a spec whose mode is a defined mode, and compiling it yields a request
\* with a search text, a select list and a top value.
C9_NeverRaises ==
  /\ Parsed => "mode" \in DOMAIN spec /\ spec.mode \in DefinedModes
  /\ pc = "compiled" =>
       /\ "raised" \notin DOMAIN payload
       /\ {"search", "select", "top"} \subseteq DOMAIN payload

\* pure punctuation, compiled by the variant whose router answers unknown
C9_Witness ==
  /\ pc = "compiled" /\ input = "?!" /\ spec.mode = "unknown"
  /\ payload.search = "?!"

\* C10: without index, range filter and metric, and without a sector that
\* looks like a listing query, app.py returns single_stock_overview whose
\* stock_query is the residual stock name, or the raw input when that is
\* empty; app.py never returns mode unknown.
C10_OverviewFallback ==
  (impl = "app" /\ Parsed) =>
    /\ spec.mode # "unknown"
    /\ (index_code = None /\ metric_filter = NoneObj /\ metric_info = NoneObj
          /\ ~(sector # None /\ LooksLikeListing)) =>
         /\ spec.mode = "single_stock_overview"
         /\ spec.stock_query = IF Residual # None THEN Residual ELSE input

\* an empty residual, and a raw input that normalization would change
C10_Witness ==
  /\ impl = "app" /\ pc = "parsed"
  /\ index_code = None /\ metric_filter = NoneObj /\ metric_info = NoneObj
  /\ Residual = None /\ input # text_lower /\ input # ""
  /\ spec.mode = "single_stock_overview" /\ spec.stock_query = input

\* the fields of a select list
Fields(select) == RunsFrom(select, {","}, FALSE, 1, "")

\* how often field f is in a select list
Count(f, select) == Cardinality({k \in 1..Len(Fields(select)) : Fields(select)[k] = f})

\* C11: a metric, none of the rules 1-5 and an empty residual stock name give
\* list_by_metric_filter with the canonical metric and no operator and no
\* threshold; the compiled request has no comparison clause (no filter at
\* all without an index), the metric in the select list, top 50 and count.
C11_MetricOnlyListing ==
  (/\ impl = "app" /\ Parsed /\ metric_info # NoneObj /\ Residual = None
   /\ \A k \in 1..5 : ~PriorityRules[k][1]) =>
    /\ spec.mode = "list_by_metric_filter"
    /\ spec.metric_filter =
         [metric |-> metric_info.column, op |-> None, value |-> NoneObj]
    /\ pc = "compiled" =>
         /\ payload.search = "*" /\ payload.top = 50 /\ payload.count = TRUE
         /\ Count(metric_info.column, payload.select) = 1
         /\ IF spec.index_code = None THEN "filter" \notin DOMAIN payload
            ELSE payload.filter =
                   "AllIndices/any(i: i eq '" \o spec.index_code \o "')"

\* a bare metric, compiled: no filter at all
C11_Witness ==
  /\ impl = "app" /\ pc = "compiled" /\ input = "pe"
  /\ metric_info # NoneObj /\ Residual = None
  /\ spec.mode = "list_by_metric_filter"
  /\ "filter" \notin DOMAIN payload
  /\ payload.select = "SymbolRaw,Name,Symbol,Sector,PE"

\* C12: compiling a list_by_index spec with index code C yields search text
\* "*", the filter AllIndices/any(i: i eq 'C'), the fixed overview select
\* set, top 50 and count true, and nothing else.
C12_IndexListing ==
  (pc = "compiled" /\ spec.mode = "list_by_index" /\ spec.index_code # None) =>
    payload =
      [search |-> "*",
       filter |-> "AllIndices/any(i: i eq '" \o spec.index_code \o "')",
       select |-> "Symbol,SymbolRaw,Name,Sector,MarketCapCr,PE,PB,EPS,DividendYieldPct,AllIndices",
       top |-> 50,
       count |-> TRUE]

C12_Witness ==
  /\ pc = "compiled" /\ spec.mode = "list_by_index"
  /\ spec.index_code = "NIFTYBANK"
  /\ payload.filter = "AllIndices/any(i: i eq 'NIFTYBANK')"

\* the sector + filter mode, under the name the serving pair gives it
SectorFilterMode ==
  \/ impl = "app" /\ spec.mode = "list_by_sector_with_filter"
  \/ impl = "query_parser" /\ spec.mode = "list_by_sector_and_metric_filter"

\* a range filter with a metric, one of the four operators and a threshold
ValidFilter(f) ==
  /\ f # NoneObj
  /\ f.metric # None /\ f.metric # ""
  /\ f.op \in {"lt", "gt", "le", "ge"}
  /\ f.value # NoneObj

\* C13: compiling a sector + filter spec with sector S and range filter
\* (M, op, v) yields the filter "Sector eq 'S' and M op v", the sector
\* equality first, and a select list that holds M exactly once.
C13_SectorFilterRequest ==
  (/\ pc = "compiled" /\ SectorFilterMode
   /\ spec.sector # None /\ ValidFilter(spec.metric_filter)) =>
    /\ payload.filter =
         "Sector eq '" \o spec.sector \o "' and " \o spec.metric_filter.metric
         \o " " \o spec.metric_filter.op \o " " \o FormatFloat(spec.metric_filter.value)
    /\ Count(spec.metric_filter.metric, payload.select) = 1
    /\ (/\ spec.sector = "Information Technology"
        /\ spec.metric_filter = [metric |-> "MarketCapCr", op |-> "ge",
                                 value |-> [num |-> 405, scale |-> 1]]) =>
         /\ payload.filter =
              "Sector eq 'Information Technology' and MarketCapCr ge 40.5"
         /\ payload.select = "SymbolRaw,Name,Symbol,Sector,MarketCapCr"

\* a filtered metric that is none of the default fields
C13_Witness ==
  /\ pc = "compiled" /\ SectorFilterMode
  /\ spec.sector = "Financials" /\ ValidFilter(spec.metric_filter)
  /\ spec.metric_filter.metric = "PE"
  /\ payload.filter = "Sector eq 'Financials' and PE lt 50.0"
  /\ payload.select = "SymbolRaw,Name,Symbol,Sector,PE"

\* the index code a spec carries, if any
SpecIndex == IF "index_code" \in DOMAIN spec THEN spec.index_code ELSE None

\* a range filter of the data model: a metric, and an operator that is one
\* of the four or not set
ModelFilter(f) ==
  \/ f = NoneObj
  \/ /\ f.metric # None /\ f.metric # ""
     /\ f.op \in {None, "lt", "gt", "le", "ge"}

\* operator and threshold are set
HasComparison(f) == f # NoneObj /\ f.op # None /\ f.value # NoneObj

Comparison(f) == f.metric \o " " \o f.op \o " " \o FormatFloat(f.value)

Membership(c) == "AllIndices/any(i: i eq '" \o c \o "')"

\* C14: compiling a list_by_metric_filter spec yields the and-conjunction of
\* the index-membership predicate (present iff the spec has an index code)
\* followed by the comparison (present iff operator and threshold are set);
\* no filter key, rather than an empty filter, when neither exists; and
\* AllIndices in the select list iff the spec has an index code.
C14_MetricFilterRequest ==
  (/\ pc = "compiled" /\ spec.mode = "list_by_metric_filter"
   /\ ModelFilter(spec.metric_filter)) =>
    /\ ("filter" \in DOMAIN payload) <=>
         (SpecIndex # None \/ HasComparison(spec.metric_filter))
    /\ "filter" \in DOMAIN payload =>
         /\ payload.filter # ""
         /\ payload.filter =
              IF SpecIndex # None /\ HasComparison(spec.metric_filter)
              THEN Membership(SpecIndex) \o " and " \o Comparison(spec.metric_filter)
              ELSE IF SpecIndex # None THEN Membership(SpecIndex)
              ELSE Comparison(spec.metric_filter)
    /\ Count("AllIndices", payload.select) = IF SpecIndex # None THEN 1 ELSE 0

\* both clauses, and neither
C14_Witness ==
  /\ pc = "compiled" /\ spec.mode = "list_by_metric_filter"
  /\ SpecIndex = "NIFTY50" /\ HasComparison(spec.metric_filter)
  /\ payload.filter = "AllIndices/any(i: i eq 'NIFTY50') and PE lt 50.0"
  /\ payload.select = "SymbolRaw,Name,Symbol,Sector,PE,AllIndices"

C14_WitnessNoFilter ==
  /\ pc = "compiled" /\ spec.mode = "list_by_metric_filter"
  /\ SpecIndex = None /\ spec.metric_filter # NoneObj
  /\ ~HasComparison(spec.metric_filter)
  /\ "filter" \notin DOMAIN payload

\* C15: compiling a single_stock_metric spec yields the stock_query as search
\* text, top 1, no filter and no count, and the select list SymbolRaw, Name,
\* Symbol plus the metric, appended only if it is not already in the list.
C15_SingleMetricRequest ==
  (pc = "compiled" /\ spec.mode = "single_stock_metric") =>
    /\ payload.search = spec.stock_query
    /\ payload.top = 1
    /\ "filter" \notin DOMAIN payload
    /\ "count" \notin DOMAIN payload
    /\ payload.select =
         IF spec.metric \in {"SymbolRaw", "Name", "Symbol"}
         THEN "SymbolRaw,Name,Symbol"
         ELSE "SymbolRaw,Name,Symbol," \o spec.metric

\* a requested metric that is one of the identity fields
C15_Witness ==
  /\ pc = "compiled" /\ spec.mode = "single_stock_metric"
  /\ spec.metric = "Symbol" /\ spec.stock_query = "hdfc life"
  /\ payload.search = "hdfc life"
  /\ payload.select = "SymbolRaw,Name,Symbol"

\* the modes the serving compiler has a branch for; any other mode is
\* compiled by the fallback
MatchedModes ==
  IF impl = "app"
  THEN {"single_stock_metric", "single_stock_overview", "list_by_index",
        "list_by_sector", "list_by_sector_with_filter", "list_by_metric_filter"}
  ELSE {"single_stock_metric", "single_stock_overview", "list_by_index",
        "list_by_sector", "list_by_index_and_sector",
        "list_by_sector_and_metric_filter", "list_by_metric_filter"}

FieldSet(select) == {Fields(select)[k] : k \in 1..Len(Fields(select))}

SingleShape == payload.top = 1 /\ {"filter", "count"} \cap DOMAIN payload = {}

\* C16 as stated: for single_stock_overview, list_by_sector and the fallback
\* the select list holds the identity fields only (SymbolRaw, Name, Symbol,
\* plus Sector for the sector listing); the single-stock and fallback
\* requests have top 1, no filter and no count.
C16_MinimalSelect ==
  pc = "compiled" =>
    /\ spec.mode = "single_stock_overview" =>
         FieldSet(payload.select) = {"SymbolRaw", "Name", "Symbol"} /\ SingleShape
    /\ spec.mode = "list_by_sector" =>
         FieldSet(payload.select) = {"SymbolRaw", "Name", "Symbol", "Sector"}
    /\ spec.mode \notin MatchedModes =>
         FieldSet(payload.select) = {"SymbolRaw", "Name", "Symbol"} /\ SingleShape

\* C16 amended: for these modes the select list is the fixed overview field
\* set, the one list_by_index uses; the single-stock and fallback requests
\* have top 1, no filter and no count.
C16_OverviewSelect ==
  (/\ pc = "compiled"
   /\ spec.mode \in {"single_stock_overview", "list_by_sector"}
      \/ spec.mode \notin MatchedModes) =>
    /\ payload.select =
         "Symbol,SymbolRaw,Name,Sector,MarketCapCr,PE,PB,EPS,DividendYieldPct,AllIndices"
    /\ spec.mode # "list_by_sector" => SingleShape

C16_Witness ==
  /\ pc = "compiled" /\ spec.mode = "single_stock_overview"
  /\ spec.stock_query = "reliance" /\ payload.search = "reliance"
  /\ Len(Fields(payload.select)) = 10

\* the serving compiler
Compile(sp) ==
  IF impl = "app" THEN build_search_payload_from_spec(sp)
  ELSE pb_build_search_payload_from_spec(sp)

\* the spec with its range filter completed to a valid one on the same metric
WithValidFilter ==
  [spec EXCEPT !.metric_filter =
     [metric |-> spec.metric_filter.metric, op |-> "lt",
      value |-> [num |-> 50, scale |-> 0]]]

\* a range filter on a metric whose operator is none of the four, or whose
\* operator or threshold is missing
BrokenFilter(f) ==
  /\ f # NoneObj /\ f.metric # None /\ f.metric # ""
  /\ f.op \notin {"lt", "gt", "le", "ge"} \/ f.value = NoneObj

\* the sector or index clause of the request, if the spec has one
OtherClause ==
  IF SectorFilterMode
  THEN IF spec.sector # None THEN "Sector eq '" \o spec.sector \o "'" ELSE None
  ELSE IF SpecIndex # None THEN Membership(SpecIndex) ELSE None

\* C17: a range filter with an operator outside lt, gt, le, ge, or without
\* operator or threshold, makes the compiler raise nothing and leave out the
\* comparison only: the index or sector clause, the select list, top and
\* count are those of the same spec with a valid filter.
C17_BrokenFilterDropped ==
  (/\ pc = "compiled"
   /\ SectorFilterMode \/ spec.mode = "list_by_metric_filter"
   /\ BrokenFilter(spec.metric_filter)) =>
    /\ "raised" \notin DOMAIN payload
    /\ IF OtherClause = None THEN "filter" \notin DOMAIN payload
       ELSE "filter" \in DOMAIN payload /\ payload.filter = OtherClause
    /\ Compile(WithValidFilter).filter =
         (IF OtherClause = None THEN "" ELSE OtherClause \o " and ")
         \o spec.metric_filter.metric \o " lt 50.0"
    /\ \A k \in {"search", "select", "top", "count"} :
         k \in DOMAIN payload /\ payload[k] = Compile(WithValidFilter)[k]
    /\ DOMAIN payload \subseteq {"search", "select", "top", "count", "filter"}

\* an operator that is none of the four, next to an index clause
C17_Witness ==
  /\ pc = "compiled" /\ spec.mode = "list_by_metric_filter"
  /\ spec.metric_filter = [metric |-> "PE", op |-> "eq",
                           value |-> [num |-> 50, scale |-> 0]]
  /\ SpecIndex = "NIFTY50"
  /\ payload.filter = "AllIndices/any(i: i eq 'NIFTY50')"
  /\ payload.select = "SymbolRaw,Name,Symbol,Sector,PE,AllIndices"

\* the serving router
Parse(x) == IF impl = "app" THEN parse_user_query(x) ELSE qp_parse_user_query(x)

\* one query for each mode
ModeExamples ==
  {"nifty 50 stocks with pe less than 50", "it stocks with pe more than 40",
   "nifty 50", "banking stocks", "sensex banking stocks", "pe of reliance",
   "infosys", "?!"}

\* the top-level fields that belong to a mode: the fields relevant to it,
\* the mode and the raw record
ModeFields(mode) ==
  {"mode", "raw"} \cup
  (CASE mode = "single_stock_metric" -> {"stock_query", "metric", "metric_phrase"}
     [] mode = "single_stock_overview" -> {"stock_query"}
     [] mode = "list_by_index" -> {"index_code"}
     [] mode = "list_by_sector" -> {"sector"}
     [] mode = "list_by_index_and_sector" -> {"index_code", "sector"}
     [] mode \in {"list_by_sector_with_filter", "list_by_sector_and_metric_filter"}
          -> {"sector", "metric_filter"}
     [] mode = "list_by_metric_filter" -> {"index_code", "metric_filter"}
     [] OTHER -> {"error"})

\* C18: the mode determines the field set: a spec has the top-level fields
\* of every other spec of its mode, and no field that belongs only to
\* another mode; a list_by_index spec carries no metric filter field.
C18_ModeDeterminesFields ==
  Parsed =>
    /\ \A x \in ModeExamples :
         Parse(x).mode = spec.mode => DOMAIN Parse(x) = DOMAIN spec
    /\ DOMAIN spec \subseteq ModeFields(spec.mode)
    /\ spec.mode = "list_by_index" => "metric_filter" \notin DOMAIN spec

-----------------------------------------------------------------------------
(* Determinism and calls side by side *)

Returned(c) == calls[c].pc \in {"parsed", "compiled"}
Finished(c) == calls[c].pc = "compiled"
InFlight(c) ==
  calls[c].pc \in {"normalized", "metric", "index", "sector", "metric_filter"}

\* what the calls have returned so far: the calls made before and the calls
\* that have just finished
Outcomes ==
  results \cup {[input |-> calls[c].input, spec |-> calls[c].spec,
                 payload |-> calls[c].payload] : c \in {d \in DOMAIN calls : Finished(d)}}

-----------------------------------------------------------------------------
(* Priority of the routing rules *)

\* C21: a query that names an index together with a metric is routed by
\* app.py to rule 1, list_by_metric_filter carrying the index code, and not
\* to a single-stock mode or any other mode.
C21_IndexWithMetric ==
  (Parsed /\ impl = "app" /\ index_code # None /\ metric_info # NoneObj)
    => /\ spec.mode = "list_by_metric_filter"
       /\ spec.index_code = index_code

\* C22: in query_parser.py, an index and a sector without a range filter
\* give list_by_index_and_sector carrying both, and payload_builder.py
\* compiles it to the filter AllIndices/any(i: i eq 'code') and Sector eq
\* 'sector' with search "*", top 50 and count true; with a range filter as
\* well, the index + filter rule wins and the spec carries no sector.
C22_IndexAndSector ==
  (Parsed /\ impl = "query_parser" /\ index_code # None /\ sector # None) =>
    IF metric_filter = NoneObj
    THEN /\ spec.mode = "list_by_index_and_sector"
         /\ spec.index_code = index_code
         /\ spec.sector = sector
         /\ pc = "compiled" =>
              /\ payload.filter = "AllIndices/any(i: i eq '" \o index_code
                                  \o "') and Sector eq '" \o sector \o "'"
              /\ payload.search = "*"
              /\ payload.top = 50
              /\ payload.count = TRUE
    ELSE /\ spec.mode = "list_by_metric_filter"
         /\ spec.index_code = index_code
         /\ "sector" \notin DOMAIN spec

C22_Witness ==
  /\ pc = "compiled" /\ impl = "query_parser"
  /\ input = "nifty bank stocks with high pe"
  /\ spec.mode = "list_by_index_and_sector"
  /\ spec.index_code = "NIFTYBANK" /\ spec.sector = "Financials"
  /\ payload.filter =
       "AllIndices/any(i: i eq 'NIFTYBANK') and Sector eq 'Financials'"

\* index, sector and range filter in one query
C22_WitnessFilter ==
  /\ pc = "compiled" /\ impl = "query_parser"
  /\ index_code # None /\ sector # None /\ metric_filter # NoneObj
  /\ spec.mode = "list_by_metric_filter"

-----------------------------------------------------------------------------
(* The two backends *)

\* the request the REST backend builds for the same text:
\* build_search_request_from_user_input's spec and json
RestSpec == parse_user_query(input)
RestPayload == build_search_payload_from_spec(RestSpec)

\* C23: the REST backend and the SDK backend build the same request: for
\* every text the same spec, search text, filter expression, select fields
\* in the same order, top, and the same answer to whether a total count is
\* requested.
C23_BackendsAgree ==
  (impl = "app_sdk" /\ pc = "compiled") =>
    /\ spec = RestSpec
    /\ payload.search_text = RestPayload.search
    /\ payload.filter_expr = GetStr(RestPayload, "filter")
    /\ Join(",", payload.select_fields) = RestPayload.select
    /\ payload.top = RestPayload.top
    /\ payload.include_total_count =
         ("count" \in DOMAIN RestPayload /\ RestPayload.count = TRUE)

\* the same, less the total count
C23_AgreeButCount ==
  (impl = "app_sdk" /\ pc = "compiled") =>
    /\ spec = RestSpec
    /\ payload.search_text = RestPayload.search
    /\ payload.filter_expr = GetStr(RestPayload, "filter")
    /\ Join(",", payload.select_fields) = RestPayload.select
    /\ payload.top = RestPayload.top

-----------------------------------------------------------------------------
(* The client singletons *)

\* the threads that hold a client of the kind fn hands out
Holders(fn) ==
  {t \in DOMAIN threads : threads[t].fn = fn /\ threads[t].pc = "done"}

\* C24: the lazily created clients are created at most once per process:
\* however many callers ask, and however their calls overlap, at most one
\* SearchClient and at most one CosmosClient are ever constructed, and the
\* callers of one kind all hold the same instance.
C24_CreatedOnce ==
  /\ singletons.made_search <= 1
  /\ singletons.made_cosmos <= 1
  /\ \A fn \in ClientFunctions : \A a, b \in Holders(fn) :
       threads[a].client = threads[b].client

-----------------------------------------------------------------------------
(* The order of the steps of process_query *)

CosmosCalls ==
  {i \in 1..Len(cosmos_app.trace) : cosmos_app.trace[i].service = "cosmos"}

\* C25: process_query parses the fields, then detects the aggregation, then
\* resolves the symbol, then queries Cosmos DB.  Cosmos DB is queried at
\* most once and only after AI Search answered with a symbol, for that
\* symbol; without a symbol the method returns success = False and no Cosmos
\* DB query was made; the query is an aggregation exactly when an
\* aggregation type and an aggregation field were both detected, and
\* otherwise a latest-data query for the requested fields.
C25_StepOrder ==
  /\ cosmos_app.aggregation_type # Unset => cosmos_app.requested_fields # << >>
  /\ cosmos_app.trace # << >> =>
       /\ cosmos_app.trace[1].service = "ai_search"
       /\ cosmos_app.aggregation_type # Unset
  /\ CosmosCalls \subseteq {2}
  /\ \A i \in CosmosCalls :
       /\ Truthy(cosmos_app.symbol_raw)
       /\ cosmos_app.trace[i].symbol = cosmos_app.symbol_raw
       /\ IF cosmos_app.aggregation_type # None /\ cosmos_app.agg_field # None
          THEN /\ cosmos_app.trace[i].query = "aggregation"
               /\ cosmos_app.trace[i].field = cosmos_app.agg_field
               /\ cosmos_app.trace[i].aggregation = cosmos_app.aggregation_type
          ELSE /\ cosmos_app.trace[i].query = "latest"
               /\ cosmos_app.trace[i].fields = cosmos_app.requested_fields
  /\ (cosmos_app.pc = "returned" /\ ~Truthy(cosmos_app.symbol_raw)) =>
       /\ cosmos_app.success = FALSE
       /\ CosmosCalls = {}
  /\ (cosmos_app.pc = "returned" /\ Truthy(cosmos_app.symbol_raw)) =>
       CosmosCalls = {2}

\* an aggregation query was issued for a resolved symbol
C25_Witness ==
  /\ cosmos_app.pc = "returned"
  /\ cosmos_app.query = "What is the highest price for HDFC?"
  /\ cosmos_app.symbol_raw = "RELIANCE"
  /\ Len(cosmos_app.trace) = 2
  /\ cosmos_app.trace[2].query = "aggregation"
  /\ cosmos_app.trace[2].aggregation = "MAX"
  /\ cosmos_app.trace[2].field = "Price"
  /\ cosmos_app.success = TRUE

\* AI Search answered with an empty symbol and the method returned
C25_WitnessNoSymbol ==
  /\ cosmos_app.pc = "returned"
  /\ cosmos_app.symbol_raw = ""
  /\ cosmos_app.success = FALSE

\* an aggregation word without a field: a latest-data query
C25_WitnessLatest ==
  /\ cosmos_app.query = "maximum for infy"
  /\ cosmos_app.aggregation_type = None
  /\ Len(cosmos_app.trace) = 2
  /\ cosmos_app.trace[2].query = "latest"
  /\ cosmos_app.trace[2].fields = <<"Price", "Change", "ChangePercent">>

-----------------------------------------------------------------------------
(* Range filter and metric *)

\* C26: in app.py, a text for which detect_metric_filter returns a range
\* filter is a text for which detect_metric returns a metric: the metric
\* phrase the range expression captured is a key of the metric table and a
\* substring of the text.  Whenever the range expression matches, the lookup
\* of the metric phrase and the lookup of the comparator phrase both
\* succeed, and the index-only rule (index present, metric absent) does not
\* fire.
C26_FilterImpliesMetric ==
  (Parsed /\ impl = "app") =>
    /\ \A k \in 1..Len(METRIC_PATTERN) :
         Truthy(Get(METRIC_ALIASES, METRIC_PATTERN[k]))
    /\ \A k \in 1..Len(COMP_PATTERN) :
         Truthy(Get(COMPARATOR_ALIASES, COMP_PATTERN[k]))
    /\ metric_filter # NoneObj =>
         /\ metric_info # NoneObj
         /\ Contains(text_lower, metric_filter.raw_metric_phrase)
         /\ \E i \in 1..Len(METRIC_ALIASES) :
              METRIC_ALIASES[i][1] = metric_filter.raw_metric_phrase
    /\ RegexSearch(text_lower) # NoneObj =>
         /\ Truthy(Get(METRIC_ALIASES,
                       Replace(Strip(RegexSearch(text_lower).metric_phrase),
                               "  ", " ")))
         /\ Truthy(Get(COMPARATOR_ALIASES,
                       Strip(RegexSearch(text_lower).comp_phrase)))
         /\ metric_info # NoneObj
         /\ ~(index_code # None /\ metric_info = NoneObj)
         /\ spec.mode # "list_by_index"

\* an index and a range filter in one query
C26_Witness ==
  /\ Parsed /\ impl = "app"
  /\ input = "nifty 50 stocks with pe less than 50"
  /\ index_code = "NIFTY50"
  /\ metric_filter # NoneObj
  /\ metric_filter.raw_metric_phrase = "pe"
  /\ metric_info.column = "PE"

\* the range expression matches and the number does not convert
C26_WitnessBadNumber ==
  /\ Parsed /\ impl = "app"
  /\ input = "pe above 1.2.3"
  /\ RegexSearch(text_lower) # NoneObj
  /\ metric_filter = NoneObj

\* C27: in app.py, a list_by_metric_filter spec with an index code has an
\* operator and a threshold: the index is attached by rule 1 only.  The
\* specs of rule 5 (range filter alone) and of the bare-metric rule have no
\* index code, because a text with an index phrase leaves a non-empty
\* residual stock name.
C27_IndexOnlyWithRange ==
  (Parsed /\ impl = "app") =>
    /\ index_code # None =>
         Truthy(extract_stock_query(input, text_lower, metric_info))
    /\ spec.mode = "list_by_metric_filter" =>
         IF index_code # None /\ metric_filter # NoneObj
         THEN /\ spec.index_code = index_code
              /\ spec.metric_filter.op # None
              /\ spec.metric_filter.value # NoneObj
         ELSE spec.index_code = None

\* a bare metric next to an index phrase: the residual is the index phrase
C27_Witness ==
  /\ Parsed /\ impl = "app"
  /\ input = "Nifty 50 pe"
  /\ index_code = "NIFTY50"
  /\ metric_info # NoneObj /\ metric_filter = NoneObj
  /\ spec.mode = "single_stock_metric"
  /\ spec.stock_query = "nifty 50"

\* rule 1 attaches the index to a range filter
C27_WitnessRule1 ==
  /\ Parsed /\ impl = "app"
  /\ spec.mode = "list_by_metric_filter"
  /\ spec.index_code = "NIFTYBANK"
  /\ spec.metric_filter.op = "gt"

\* rule 5 and the bare-metric rule, without an index
C27_WitnessRule5 ==
  /\ Parsed /\ impl = "app"
  /\ spec.mode = "list_by_metric_filter"
  /\ spec.index_code = None
  /\ spec.metric_filter.op = "lt"

C27_WitnessBareMetric ==
  /\ Parsed /\ impl = "app"
  /\ spec.mode = "list_by_metric_filter"
  /\ spec.index_code = None
  /\ spec.metric_filter.op = None

\* C28: each parser is closed under its own compiler.  No spec returned by
\* parse_user_query of app.py reaches the fallback of app.py's compiler; a
\* spec returned by parse_user_query of query_parser.py reaches the fallback
\* of payload_builder.py exactly when its mode is unknown.
C28_ParserClosedUnderCompiler ==
  Parsed =>
    /\ impl = "app" => build_branch(spec) \notin {"fallback", "raised"}
    /\ impl = "query_parser" =>
         /\ pb_build_branch(spec) # "raised"
         /\ pb_build_branch(spec) = "fallback" <=> spec.mode = "unknown"
    /\ (pc = "compiled" /\ impl = "query_parser" /\ spec.mode = "unknown") =>
         payload = FallbackPayload(spec)

\* the sector + filter mode, whose name differs between the two parsers,
\* compiled by app.py's own branch
C28_Witness ==
  /\ impl = "app" /\ pc = "compiled"
  /\ spec.mode = "list_by_sector_with_filter"
  /\ build_branch(spec) = "list_by_sector_with_filter"
  /\ pb_build_branch(spec) = "fallback"
  /\ payload = SectorFilterPayload(spec)

\* mode unknown compiled by the fallback of payload_builder.py
C28_WitnessUnknown ==
  /\ impl = "query_parser" /\ pc = "compiled"
  /\ spec.mode = "unknown" /\ pb_build_branch(spec) = "fallback"
  /\ payload.search = input

\* C29: every request app.py compiles from the output of its parser has top
\* 1 or 50, asks for the total count exactly when top is 50, carries a
\* filter only when top is 50, and names no field twice in its select list.
C29_RequestShape ==
  (impl = "app" /\ pc = "compiled") =>
    /\ payload.top \in {1, 50}
    /\ ("count" \in DOMAIN payload /\ payload.count) <=> payload.top = 50
    /\ "filter" \in DOMAIN payload => payload.top = 50
    /\ LET fields == Fields(payload.select)
       IN  \A j, k \in 1..Len(fields) : fields[j] = fields[k] => j = k

\* a filtered listing: top 50 with count and filter, the select list being
\* the identity fields plus the filtered metric and AllIndices
C29_Witness ==
  /\ impl = "app" /\ pc = "compiled"
  /\ spec.mode = "list_by_metric_filter"
  /\ payload.top = 50 /\ payload.count
  /\ "filter" \in DOMAIN payload
  /\ Len(Fields(payload.select)) = 6

\* a single-stock request: top 1, no count, no filter, the identity fields
\* and the metric selected once each
C29_WitnessSingle ==
  /\ impl = "app" /\ pc = "compiled"
  /\ spec.mode = "single_stock_metric" /\ spec.metric = "PE"
  /\ payload.top = 1 /\ {"count", "filter"} \cap DOMAIN payload = {}
  /\ Len(Fields(payload.select)) = 4

\* the variant of a text in lower case, without leading or trailing
\* whitespace and with single spaces: it differs from the text only in
\* letter case and whitespace, and two texts that differ only in these have
\* the same one
CanonicalVariant(x) == Join(" ", Split(Strip(Lower(x))))

\* a spec without raw.input and without the top-level fields in drop
SpecBut(sp, drop) ==
  [top |-> [k \in DOMAIN sp \ ({"raw"} \cup drop) |-> sp[k]],
   raw |-> [k \in DOMAIN sp.raw \ {"input"} |-> sp.raw[k]]]

\* the spec app.py returns for the canonical variant of the input
CanonicalSpec == parse_user_query(CanonicalVariant(input))

\* C30 as stated: two inputs that differ only in letter case or whitespace
\* get specs equal in mode and in every field other than raw.input,
\* stock_query included; stated against the canonical variant of the input.
C30_RoutingOnNormalizedText ==
  (impl = "app" /\ Parsed) => SpecBut(spec, {}) = SpecBut(CanonicalSpec, {})

\* C30 amended: the specs are equal in mode and in every field other than
\* raw.input and stock_query; the stock_query is equal too unless the mode is
\* single_stock_overview and no stock name is left, and then it is the raw
\* input of each.
C30_RoutingButRawStockQuery ==
  (impl = "app" /\ pc = "parsed") =>
    LET canonical == CanonicalSpec
    IN  /\ spec.mode = canonical.mode
        /\ SpecBut(spec, {"stock_query"}) = SpecBut(canonical, {"stock_query"})
        /\ "stock_query" \in DOMAIN spec <=> "stock_query" \in DOMAIN canonical
        /\ "stock_query" \in DOMAIN spec =>
             IF spec.mode = "single_stock_overview" /\ Residual = None
             THEN /\ spec.stock_query = input
                  /\ canonical.stock_query = CanonicalVariant(input)
             ELSE spec.stock_query = canonical.stock_query

\* an input with a capital letter that is routed by its lower-case text
C30_Witness ==
  /\ impl = "app" /\ Parsed
  /\ input = "Nifty 50 pe" /\ CanonicalVariant(input) = "nifty 50 pe"
  /\ spec.mode = "single_stock_metric" /\ spec.stock_query = "nifty 50"
  /\ SpecBut(spec, {}) = SpecBut(CanonicalSpec, {})

\* an input of stopwords and spaces: its stock_query is the raw input, the
\* one of its canonical variant is the canonical variant
C30_WitnessRawStockQuery ==
  /\ impl = "app" /\ Parsed
  /\ input # CanonicalVariant(input)
  /\ spec.mode = "single_stock_overview" /\ Residual = None
  /\ spec.stock_query = input
  /\ CanonicalSpec.stock_query # spec.stock_query

====
